---- MODULE Spec2Model ----
(***************************************************************************)
(* FoodFlow (iteration 4, src/iteration 4/app.py): credential hashing,     *)
(* the entity model, the JSON persistence store with its expiry sweep,     *)
(* the timed background load at startup and the session handlers of the    *)
(* application shell.                                                      *)
(*                                                                         *)
(* Conventions.  A Python string is a sequence of one-character strings.   *)
(* A Python value whose type the code inspects (the stored credential, a   *)
(* raw record of the loaded document) is a tagged record [t, v] with t one *)
(* of "none", "int", "str", "list", "dict".  A call that may raise is      *)
(* an outcome [ok, val]: ok = FALSE stands for a raised Exception.         *)
(* Datetimes are whole hours on one clock; money is whole cents.           *)
(***************************************************************************)
EXTENDS Integers, Sequences, FiniteSets, TLC

VARIABLES
    users,            \* global list users: sequence of User objects
    businesses,       \* global list businesses: sequence of Business objects
    food_items,       \* global list food_items (the sale pool)
    active_user,      \* App.active_user: index into users, 0 for None
    active_business,  \* App.active_business: index into businesses, 0 for None
    data_file,        \* content of DATA_FILE on disk
    now,              \* the wall clock, dt.datetime.now()
    pay_wins,         \* open payment windows: the item each confirm closure holds
    next_id,          \* source of fresh uuid4 values
    presave,          \* the three lists as save_data found them at its last call
    last,             \* the handler that ran last, its inputs and outcome
    pc,               \* position of the main thread / of the function under test
    tpc,              \* position of the background load thread
    data_queue,       \* queue.Queue shared by the load thread and the main thread
    raw,              \* the raw document startup builds the lists from
    deadline,         \* t.join(timeout=1): "pending", "met" (the thread ended in time)
                      \* or "passed" (the timeout ran out)
    put_at,           \* when the load thread put its result: "never", "before_deadline",
                      \* "before_check" or "after_check"
    arg,              \* inputs of the function under test
    res               \* result of the function under test

vars == <<users, businesses, food_items, active_user, active_business, data_file,
          now, pay_wins, next_id, presave, last, pc, tpc, data_queue, raw, deadline,
          put_at, arg, res>>

-----------------------------------------------------------------------------
(* Python values and outcomes *)

PyNone == [t |-> "none", v |-> 0]
PyInt(n) == [t |-> "int", v |-> n]
PyStr(s) == [t |-> "str", v |-> s]
PyList(s) == [t |-> "list", v |-> s]
PyDict(d) == [t |-> "dict", v |-> d]

Ret(x) == [ok |-> TRUE, val |-> x]
Raise == [ok |-> FALSE, val |-> PyNone]

\* a == b on two tagged values
PyEq(a, b) == a.t = b.t /\ a.v = b.v

-----------------------------------------------------------------------------
(* Strings *)

Whitespace == {" ", "\n", "\t"}
UpperOf == [c \in {"a", "b", "l", "o", "p", "s"} |->
              CASE c = "a" -> "A" [] c = "b" -> "B" [] c = "l" -> "L"
                [] c = "o" -> "O" [] c = "p" -> "P" [] c = "s" -> "S"]
Capitals == {UpperOf[c] : c \in DOMAIN UpperOf}
DigitChars == <<"0", "1", "2", "3", "4", "5", "6", "7", "8", "9">>
DigitSet == {DigitChars[i] : i \in 1..10}

\* str.lower(), one character
LowerChar(c) ==
    IF c \in Capitals THEN CHOOSE l \in DOMAIN UpperOf : UpperOf[l] = c ELSE c

\* str.lower()
Lower(s) == [i \in 1..Len(s) |-> LowerChar(s[i])]

RECURSIVE LStrip(_)
LStrip(s) == IF s # <<>> /\ Head(s) \in Whitespace THEN LStrip(Tail(s)) ELSE s

RECURSIVE RStrip(_)
RStrip(s) ==
    IF s # <<>> /\ s[Len(s)] \in Whitespace THEN RStrip(SubSeq(s, 1, Len(s) - 1)) ELSE s

\* str.strip()
Strip(s) == RStrip(LStrip(s))

\* str(n) for an integer n >= 0
RECURSIVE DecimalOf(_)
DecimalOf(n) ==
    IF n < 10 THEN <<DigitChars[n + 1]>>
    ELSE Append(DecimalOf(n \div 10), DigitChars[(n % 10) + 1])

\* int(s) for a string of decimal digits
RECURSIVE DecimalValue(_)
DecimalValue(s) ==
    IF s = <<>> THEN 0
    ELSE 10 * DecimalValue(SubSeq(s, 1, Len(s) - 1))
         + ((CHOOSE i \in 1..10 : DigitChars[i] = s[Len(s)]) - 1)

-----------------------------------------------------------------------------
(* binascii *)

HexChars == <<"0", "1", "2", "3", "4", "5", "6", "7",
              "8", "9", "a", "b", "c", "d", "e", "f">>
HexUpper == <<"0", "1", "2", "3", "4", "5", "6", "7",
              "8", "9", "A", "B", "C", "D", "E", "F">>
IsHexChar(c) == \E i \in 1..16 : HexChars[i] = c \/ HexUpper[i] = c
HexValue(c) == (CHOOSE i \in 1..16 : HexChars[i] = c \/ HexUpper[i] = c) - 1

\* binascii.hexlify(b).decode('ascii')
RECURSIVE Hexlify(_)
Hexlify(b) ==
    IF b = <<>> THEN <<>>
    ELSE <<HexChars[(Head(b) \div 16) + 1], HexChars[(Head(b) % 16) + 1]>>
         \o Hexlify(Tail(b))

RECURSIVE UnhexPairs(_)
UnhexPairs(s) ==
    IF s = <<>> THEN <<>>
    ELSE <<16 * HexValue(s[1]) + HexValue(s[2])>> \o UnhexPairs(SubSeq(s, 3, Len(s)))

\* binascii.unhexlify(s): binascii.Error on an odd length or a non-hex digit
Unhexlify(s) ==
    IF Len(s) % 2 = 1 \/ \E i \in 1..Len(s) : ~IsHexChar(s[i]) THEN Raise
    ELSE Ret(UnhexPairs(s))

-----------------------------------------------------------------------------
(* Credential hasher *)

\* default of the iterations parameter
DefaultIterations == 100000

\* hexlify(hashlib.pbkdf2_hmac('sha256', password.encode('utf-8'), salt, iterations)):
\* the digest is taken to be collision-free, so its hex text is an injective tag of
\* the three inputs ("$" occurs in no password of the model)
Pbkdf2Hex(password, salt, iterations) ==
    password \o <<"$">> \o Hexlify(salt) \o <<"$">> \o DecimalOf(iterations)

\* hash_password that passes a hex salt string on to pbkdf2_hmac undecoded
HashSaltNotDecoded(password, salt, iterations, rnd) ==
    IF salt.t # "none" THEN Raise
    ELSE IF password.t # "str" THEN Raise
    ELSE IF iterations.t # "int" THEN Raise
    ELSE IF iterations.v < 1 THEN Raise
    ELSE Ret(PyDict([salt |-> PyStr(Hexlify(rnd)),
                     hash |-> PyStr(Pbkdf2Hex(password.v, rnd, iterations.v)),
                     iter |-> iterations]))

\* hash_password(password, salt, iterations); rnd is what os.urandom(16) returns when
\* it is called.  AttributeError for a password that is no str, binascii.Error for a
\* salt string that is no hex text, TypeError/ValueError from pbkdf2_hmac for a salt
\* that is neither None nor str and for an iteration count that is no int >= 1.
hash_password(password, salt, iterations, rnd) ==
    LET bytes == CASE salt.t = "none" -> Ret(rnd)
                   [] salt.t = "str" -> Unhexlify(salt.v)
                   [] OTHER -> Raise
    IN  IF ~bytes.ok THEN Raise
        ELSE IF password.t # "str" THEN Raise
        ELSE IF iterations.t # "int" THEN Raise
        ELSE IF iterations.v < 1 THEN Raise
        ELSE Ret(PyDict([salt |-> PyStr(Hexlify(bytes.val)),
                         hash |-> PyStr(Pbkdf2Hex(password.v, bytes.val, iterations.v)),
                         iter |-> iterations]))

\* the try block of verify_password
VerifyBody(stored, provided, rnd) ==
    IF stored.t # "dict" THEN Raise
    ELSE IF "salt" \notin DOMAIN stored.v THEN Raise
    ELSE LET salt == stored.v.salt
             it == IF "iter" \in DOMAIN stored.v THEN stored.v.iter
                   ELSE PyInt(DefaultIterations)
             candidate == hash_password(provided, salt, it, rnd)
         IN  IF ~candidate.ok THEN Raise
             ELSE IF "hash" \notin DOMAIN stored.v THEN Raise
             ELSE Ret(PyEq(candidate.val.v.hash, stored.v.hash))

\* verify_password without its except clause
VerifyUnguarded(stored, provided, rnd) == VerifyBody(stored, provided, rnd)

\* verify_password(stored, provided): except Exception: return False
verify_password(stored, provided, rnd) ==
    LET r == VerifyBody(stored, provided, rnd)
    IN  IF r.ok THEN r ELSE Ret(FALSE)

-----------------------------------------------------------------------------
(* json.loads, restricted to the texts of the model: whitespace, the empty object,  *)
(* arrays and integers                                                              *)

ParseFail == [ok |-> FALSE, val |-> PyNone, rest |-> <<>>]
Parsed(v, rest) == [ok |-> TRUE, val |-> v, rest |-> rest]

\* the longest prefix of digits of s
RECURSIVE DigitPrefix(_)
DigitPrefix(s) ==
    IF s # <<>> /\ Head(s) \in DigitSet THEN <<Head(s)>> \o DigitPrefix(Tail(s)) ELSE <<>>

RECURSIVE ParseValue(_)
RECURSIVE ParseElements(_, _)

\* the elements of an array after its first, up to the closing bracket
ParseElements(s, acc) ==
    LET t == LStrip(s)
    IN  IF t = <<>> THEN ParseFail
        ELSE IF Head(t) = "]" THEN Parsed(PyList(acc), Tail(t))
        ELSE IF Head(t) = "," THEN
            LET e == ParseValue(Tail(t))
            IN  IF e.ok THEN ParseElements(e.rest, Append(acc, e.val)) ELSE ParseFail
        ELSE ParseFail

\* one JSON value at the head of s
ParseValue(s) ==
    LET t == LStrip(s)
    IN  IF t = <<>> THEN ParseFail
        ELSE IF Head(t) = "{" THEN
            LET u == LStrip(Tail(t))
            IN  IF u # <<>> /\ Head(u) = "}" THEN Parsed(PyDict(<<>>), Tail(u))
                ELSE ParseFail
        ELSE IF Head(t) = "[" THEN
            LET u == LStrip(Tail(t))
            IN  IF u # <<>> /\ Head(u) = "]" THEN Parsed(PyList(<<>>), Tail(u))
                ELSE LET e == ParseValue(u)
                     IN  IF e.ok THEN ParseElements(e.rest, <<e.val>>) ELSE ParseFail
        ELSE IF Head(t) \in DigitSet THEN
            LET d == DigitPrefix(t)
            IN  IF Len(d) > 1 /\ Head(d) = "0" THEN ParseFail
                ELSE Parsed(PyInt(DecimalValue(d)), SubSeq(t, Len(d) + 1, Len(t)))
        ELSE ParseFail

\* json.loads(txt): json.JSONDecodeError unless txt is one value and whitespace
JsonLoads(txt) ==
    LET r == ParseValue(txt)
    IN  IF r.ok /\ LStrip(r.rest) = <<>> THEN Ret(r.val) ELSE Raise

-----------------------------------------------------------------------------
(* Persistence store: load *)

\* DATA_FILE is missing, holds arbitrary text, or holds the text json.dump wrote for
\* the value val (json.loads of that text is val again)
FileMissing == [kind |-> "missing"]
FileText(txt) == [kind |-> "text", txt |-> txt]
FileJson(val) == [kind |-> "json", val |-> val]

\* {"users": [], "businesses": [], "food_items": []}
EmptyDocument ==
    PyDict([users |-> PyList(<<>>), businesses |-> PyList(<<>>),
            food_items |-> PyList(<<>>)])

\* the try block of load_data: open, read, strip, json.loads; the outcome carries
\* which exception was raised
LoadBody(file) ==
    IF file.kind = "missing" THEN [ok |-> FALSE, val |-> PyNone, exc |-> "FileNotFoundError"]
    ELSE IF file.kind = "json" THEN [ok |-> TRUE, val |-> file.val, exc |-> "none"]
    ELSE LET txt == Strip(file.txt)
         IN  IF txt = <<>> THEN [ok |-> TRUE, val |-> EmptyDocument, exc |-> "none"]
             ELSE LET r == JsonLoads(txt)
                  IN  IF r.ok THEN [ok |-> TRUE, val |-> r.val, exc |-> "none"]
                      ELSE [ok |-> FALSE, val |-> PyNone, exc |-> "JSONDecodeError"]

\* load_data of iterations 1 and 2: except FileNotFoundError only
load_data_1(file) ==
    LET r == LoadBody(file)
    IN  IF r.ok THEN Ret(r.val)
        ELSE IF r.exc = "FileNotFoundError" THEN Ret(EmptyDocument)
        ELSE Raise

\* load_data (iteration 4): except Exception
load_data(file) ==
    LET r == LoadBody(file)
    IN  IF r.ok THEN Ret(r.val) ELSE Ret(EmptyDocument)

-----------------------------------------------------------------------------
(* Entity model *)

PyFloat(x) == [t |-> "float", v |-> x]

\* str(n) for any integer n
IntText(n) == IF n < 0 THEN <<"-">> \o DecimalOf(-n) ELSE DecimalOf(n)

\* s is an optional minus sign followed by decimal digits
IsIntText(s) ==
    LET d == IF s # <<>> /\ Head(s) = "-" THEN Tail(s) ELSE s
    IN  d # <<>> /\ \A i \in 1..Len(d) : d[i] \in DigitSet

\* the integer a text of IsIntText denotes
IntValue(s) ==
    IF Head(s) = "-" THEN 0 - DecimalValue(Tail(s)) ELSE DecimalValue(s)

\* float(text) of an entry field, in whole units: ValueError for a text that is no number
FloatOf(text) == IF IsIntText(Strip(text)) THEN Ret(IntValue(Strip(text))) ELSE Raise

\* datetime.isoformat(): the text of a datetime
IsoFormat(t) == IntText(t)

\* a fromisoformat that takes none of the texts isoformat writes
FromIsoFormatFailing(s) == Raise

\* dt.datetime.fromisoformat(s): ValueError for a text that is no datetime
FromIsoFormat(s) == IF IsIntText(s) THEN Ret(IntValue(s)) ELSE Raise

\* str(uuid.uuid4()): a fresh identifier, the n-th of its kind
Uuid(kind, n) == PyStr(<<kind>> \o DecimalOf(n))

\* an item that expires the moment it is made, whatever the hours
NewFoodItemNoHours(name, category, price, business_id, hours, weight, t, n) ==
    [name |-> name, category |-> category, price |-> price, weight |-> weight,
     distance |-> PyStr(<<"U", "n", "k", "n", "o", "w", "n">>),
     expiry |-> t, business_id |-> business_id, id |-> Uuid("f", n)]

\* FoodItem.__init__ as the listing form calls it: expiry is None, so the expiry is
\* now + hours; id is None, so a fresh uuid
NewFoodItem(name, category, price, business_id, hours, weight, t, n) ==
    [name |-> name, category |-> category, price |-> price, weight |-> weight,
     distance |-> PyStr(<<"U", "n", "k", "n", "o", "w", "n">>),
     expiry |-> t + hours, business_id |-> business_id, id |-> Uuid("f", n)]

\* FoodItem.to_dict
FoodItemToDict(f) ==
    PyDict([name |-> f.name, category |-> f.category, price |-> PyFloat(f.price),
            weight |-> PyFloat(f.weight), distance |-> f.distance,
            expiry |-> PyStr(IsoFormat(f.expiry)), business_id |-> f.business_id,
            id |-> f.id])

\* User.__init__ for a password string and no id: the password is hashed with a fresh
\* salt, the id is a fresh uuid, purchases start empty
NewUser(username, password, name, sec_q, sec_a, rnd, n) ==
    [username |-> PyStr(username),
     password |-> hash_password(PyStr(password), PyNone, PyInt(DefaultIterations), rnd).val,
     name |-> PyStr(name), id |-> Uuid("u", n), purchases |-> <<>>,
     sec_q |-> sec_q, sec_a |-> sec_a]

\* User.to_dict
UserToDict(u) ==
    PyDict([username |-> u.username, password |-> u.password, name |-> u.name,
            id |-> u.id,
            purchases |-> PyList([i \in 1..Len(u.purchases) |-> FoodItemToDict(u.purchases[i])]),
            sec_q |-> u.sec_q, sec_a |-> u.sec_a])

\* a Business that keeps the password string it is given
NewBusinessPlain(username, password, name, sec_q, sec_a, rnd, n) ==
    [username |-> PyStr(username), password |-> PyStr(password),
     name |-> PyStr(name), id |-> Uuid("b", n), listings |-> <<>>, cash |-> 0,
     notifications |-> <<>>, sec_q |-> sec_q, sec_a |-> sec_a]

\* Business.__init__ for a password string and no id
NewBusiness(username, password, name, sec_q, sec_a, rnd, n) ==
    [username |-> PyStr(username),
     password |-> hash_password(PyStr(password), PyNone, PyInt(DefaultIterations), rnd).val,
     name |-> PyStr(name), id |-> Uuid("b", n), listings |-> <<>>, cash |-> 0,
     notifications |-> <<>>, sec_q |-> sec_q, sec_a |-> sec_a]

\* Business.to_dict
BusinessToDict(b) ==
    PyDict([username |-> b.username, password |-> b.password, name |-> b.name,
            id |-> b.id,
            listings |-> PyList([i \in 1..Len(b.listings) |-> FoodItemToDict(b.listings[i])]),
            cash |-> PyFloat(b.cash), notifications |-> PyList(b.notifications),
            sec_q |-> b.sec_q, sec_a |-> b.sec_a])

-----------------------------------------------------------------------------
(* Persistence store: save, with the expiry sweep *)

\* hours an item is kept after its expiry
RetentionHours == 24

\* a sweep that keeps an item until its expiry is before the cutoff
RetainedInclusive(f, cutoff) == f.expiry >= cutoff

\* the condition of the three list comprehensions of save_data
Retained(f, cutoff) == f.expiry > cutoff

\* the sweep of one list
Sweep(items, cutoff) == SelectSeq(items, LAMBDA f : Retained(f, cutoff))

\* save_data without its assignments to the lists: the swept lists go to the file
\* only
save_data_file_only(us, bs, fs, t) ==
    LET cutoff == t - RetentionHours
        fs2 == Sweep(fs, cutoff)
        bs2 == [i \in 1..Len(bs) |-> [bs[i] EXCEPT !.listings = Sweep(@, cutoff)]]
        us2 == [i \in 1..Len(us) |-> [us[i] EXCEPT !.purchases = Sweep(@, cutoff)]]
        out == PyDict([users |-> PyList([i \in 1..Len(us2) |-> UserToDict(us2[i])]),
                       businesses |-> PyList([i \in 1..Len(bs2) |-> BusinessToDict(bs2[i])]),
                       food_items |-> PyList([i \in 1..Len(fs2) |-> FoodItemToDict(fs2[i])])])
    IN  [users |-> us, businesses |-> bs, food_items |-> fs, file |-> FileJson(out)]

\* save_data() at time t on the lists us, bs, fs: the swept lists and the document
\* written to DATA_FILE
save_data(us, bs, fs, t) ==
    LET cutoff == t - RetentionHours
        fs2 == Sweep(fs, cutoff)
        bs2 == [i \in 1..Len(bs) |-> [bs[i] EXCEPT !.listings = Sweep(@, cutoff)]]
        us2 == [i \in 1..Len(us) |-> [us[i] EXCEPT !.purchases = Sweep(@, cutoff)]]
        out == PyDict([users |-> PyList([i \in 1..Len(us2) |-> UserToDict(us2[i])]),
                       businesses |-> PyList([i \in 1..Len(bs2) |-> BusinessToDict(bs2[i])]),
                       food_items |-> PyList([i \in 1..Len(fs2) |-> FoodItemToDict(fs2[i])])])
    IN  [users |-> us2, businesses |-> bs2, food_items |-> fs2, file |-> FileJson(out)]

-----------------------------------------------------------------------------
(* Bounds and input sets *)

\* length of the passwords tried against the hasher
MaxPwLen == 2
\* length of a salt os.urandom returns in the model (16 in the code)
SaltLen == 2

PwAlphabet == {"a", "A", "1"}
SampleBytes == {10, 171}

\* the strings of at most n characters over alphabet A
StringsUpTo(A, n) == UNION {[1..k -> A] : k \in 0..n}

HasherPasswords == StringsUpTo(PwAlphabet, MaxPwLen)

\* the values os.urandom can return
Urandom == [1..SaltLen -> SampleBytes]

\* os.urandom inside a verification: a fresh salt, one under which the candidate's
\* digest is not by chance the digest a salt-less record stores
FreshUrandom(stored, provided) ==
    {r \in Urandom :
        LET c == hash_password(provided, PyNone, PyInt(DefaultIterations), r)
        IN  ~(stored.t = "dict" /\ "hash" \in DOMAIN stored.v /\ c.ok
              /\ PyEq(c.val.v.hash, stored.v.hash))}

-----------------------------------------------------------------------------
(* The state of the application before anything is loaded *)

NoLast == [op |-> "none", result |-> "none"]
NoLists == [saved |-> FALSE, at |-> 0, users |-> <<>>, businesses |-> <<>>,
            food_items |-> <<>>]

appvars == <<users, businesses, food_items, active_user, active_business, data_file,
             now, pay_wins, next_id, presave, last>>
startvars == <<tpc, data_queue, raw, deadline, put_at>>

AppBlank ==
    /\ users = <<>> /\ businesses = <<>> /\ food_items = <<>>
    /\ active_user = 0 /\ active_business = 0
    /\ data_file = FileMissing
    /\ now = 0 /\ pay_wins = <<>> /\ next_id = 1
    /\ presave = NoLists /\ last = NoLast

StartBlank ==
    /\ tpc = "none" /\ data_queue = <<>> /\ raw = PyNone
    /\ deadline = "pending" /\ put_at = "never"

-----------------------------------------------------------------------------
(* The hasher on its own: hash a password, then verify candidates against the     *)
(* record; verify candidates against malformed records.                           *)

GoodRecord(p, salt) == hash_password(PyStr(p), PyNone, PyInt(DefaultIterations), salt).val
Salt0 == [i \in 1..SaltLen |-> 171]

\* stored records that are no well-formed credential
MalformedRecords ==
    LET good == GoodRecord(<<"a", "1">>, Salt0).v
        hex == good.salt
    IN  { PyNone, PyStr(<<"a", "1">>), PyInt(5), PyList(<<>>),
          PyDict([hash |-> good.hash, iter |-> good.iter]),
          PyDict([salt |-> good.salt, iter |-> good.iter]),
          PyDict([salt |-> good.salt]),
          PyDict([good EXCEPT !.salt = PyStr(<<"z", "z">>)]),
          PyDict([good EXCEPT !.salt = PyStr(<<"a">>)]),
          PyDict([good EXCEPT !.salt = PyStr(Append(hex.v, "0"))]),
          PyDict([good EXCEPT !.salt = PyInt(7)]),
          PyDict([good EXCEPT !.salt = PyList(<<>>)]),
          PyDict([good EXCEPT !.salt = PyNone]),
          PyDict([good EXCEPT !.iter = PyInt(0)]),
          PyDict([good EXCEPT !.iter = PyInt(-1)]),
          PyDict([good EXCEPT !.iter = PyStr(<<"1">>)]),
          PyDict([good EXCEPT !.iter = PyNone]),
          PyDict([good EXCEPT !.hash = PyNone]),
          PyDict([good EXCEPT !.hash = PyInt(0)]) }

HashInit ==
    /\ AppBlank /\ StartBlank
    /\ pc = "hasher"
    /\ arg \in [case : {"hashed"}, p : HasherPasswords, q : HasherPasswords,
                rnd : Urandom, bad : {PyNone}]
               \cup [case : {"malformed"}, p : {<<>>}, q : HasherPasswords,
                     rnd : {Salt0}, bad : MalformedRecords]
    /\ res = [stored |-> PyNone, out |-> Raise]

\* stored = hash_password(p)
HashStep ==
    /\ pc = "hasher"
    /\ arg.case = "hashed"
    /\ pc' = "hashed"
    /\ res' = [res EXCEPT !.stored =
                 hash_password(PyStr(arg.p), PyNone, PyInt(DefaultIterations), arg.rnd).val]
    /\ UNCHANGED <<appvars, startvars, arg>>

\* verify_password(stored, q)
VerifyStep ==
    /\ pc = "hashed"
    /\ pc' = "verified"
    /\ \E r \in FreshUrandom(res.stored, PyStr(arg.q)) :
          res' = [res EXCEPT !.out = verify_password(res.stored, PyStr(arg.q), r)]
    /\ UNCHANGED <<appvars, startvars, arg>>

\* verify_password(bad, q) for a malformed record
VerifyMalformedStep ==
    /\ pc = "hasher"
    /\ arg.case = "malformed"
    /\ pc' = "rejected"
    /\ \E r \in FreshUrandom(arg.bad, PyStr(arg.q)) :
          res' = [res EXCEPT !.out = verify_password(arg.bad, PyStr(arg.q), r)]
    /\ UNCHANGED <<appvars, startvars, arg>>

HashNext == HashStep \/ VerifyStep \/ VerifyMalformedStep

SpecHash == HashInit /\ [][HashNext]_vars

\* C7: verify_password(hash_password(p), q) is true exactly when q = p: the original
\* password verifies, every other one (also one differing only in case) does not.
VerifyIffSamePassword ==
    pc = "verified" => (res.out = Ret(arg.q = arg.p))

\* a candidate differing from the hashed password only in letter case was verified
VerifyCaseVariantTried ==
    pc = "verified" /\ arg.q # arg.p /\ Lower(arg.q) = Lower(arg.p) /\ res.out = Ret(FALSE)

\* C8: verify_password returns False, and does not raise, for every malformed stored
\* record and every candidate password.
VerifyMalformedIsFalse ==
    pc = "rejected" => res.out = Ret(FALSE)

\* a record with a non-hex salt was verified against the password its hash is of
VerifyMalformedTried ==
    /\ pc = "rejected"
    /\ arg.bad.t = "dict" /\ "salt" \in DOMAIN arg.bad.v
    /\ arg.bad.v.salt = PyStr(<<"z", "z">>)
    /\ arg.q = <<"a", "1">>
    /\ res.out = Ret(FALSE)

-----------------------------------------------------------------------------
(* load_data on its own, over every content of DATA_FILE: the file is missing,    *)
(* holds a short text, or holds a document written by json.dump.                  *)

\* length of the file texts tried
MaxTextLen == 3

TextAlphabet == {" ", "\n", "{", "}", "[", "]", "1", ","}

FileContents ==
    {FileMissing, FileJson(EmptyDocument)}
    \cup {FileText(t) : t \in StringsUpTo(TextAlphabet, MaxTextLen)}

LoadInit ==
    /\ users = <<>> /\ businesses = <<>> /\ food_items = <<>>
    /\ active_user = 0 /\ active_business = 0
    /\ data_file \in FileContents
    /\ now = 0 /\ pay_wins = <<>> /\ next_id = 1
    /\ presave = NoLists /\ last = NoLast
    /\ StartBlank
    /\ pc = "load" /\ arg = PyNone /\ res = Raise

\* raw = load_data(), iteration 4
LoadStep ==
    /\ pc = "load"
    /\ pc' = "loaded"
    /\ res' = load_data(data_file)
    /\ UNCHANGED <<appvars, startvars, arg>>

\* data = load_data(), iterations 1 and 2
LoadStep_1 ==
    /\ pc = "load"
    /\ pc' = "loaded_1"
    /\ res' = load_data_1(data_file)
    /\ UNCHANGED <<appvars, startvars, arg>>

LoadNext == LoadStep \/ LoadStep_1

SpecLoad == LoadInit /\ [][LoadNext]_vars

\* v is a document with the three arrays present and empty
IsEmptyDocument(v) ==
    /\ v.t = "dict"
    /\ DOMAIN v.v = {"users", "businesses", "food_items"}
    /\ \A k \in DOMAIN v.v : v.v[k].t = "list" /\ v.v[k].v = <<>>

BlankText(file) == file.kind = "text" /\ Strip(file.txt) = <<>>
MalformedText(file) ==
    file.kind = "text" /\ Strip(file.txt) # <<>> /\ ~JsonLoads(Strip(file.txt)).ok

\* the file is missing, blank or malformed JSON
NoDocumentInFile(file) ==
    file.kind = "missing" \/ BlankText(file) \/ MalformedText(file)

\* C9: load_data returns the empty document, and surfaces no error, when the file is
\* missing, empty or whitespace-only, or malformed JSON (every iteration's load_data).
LoadDataFallsBackEverywhere ==
    (pc \in {"loaded", "loaded_1"} /\ NoDocumentInFile(data_file))
        => (res.ok /\ IsEmptyDocument(res.val))

\* C9 for the load_data of iteration 4 alone
LoadDataFallsBack ==
    (pc = "loaded" /\ NoDocumentInFile(data_file))
        => (res.ok /\ IsEmptyDocument(res.val))

\* iteration 4 loaded a file of malformed JSON
LoadDataMalformedTried ==
    pc = "loaded" /\ MalformedText(data_file) /\ res.ok /\ IsEmptyDocument(res.val)

-----------------------------------------------------------------------------
(* Application shell: the handlers.  Each handler is one action; its inputs are    *)
(* the texts of the entry fields.  Toplevel windows are not modal, so a handler    *)
(* of a window opened earlier can run in any later state.                          *)

\* shortest password the signup and reset forms accept
MinPasswordLen == 8

NoSave == NoLists

\* the handler calls save_data() on the lists us, bs, fs
SaveAnd(us, bs, fs) ==
    LET r == save_data(us, bs, fs, now)
    IN  /\ users' = r.users
        /\ businesses' = r.businesses
        /\ food_items' = r.food_items
        /\ data_file' = r.file
        /\ presave' = [saved |-> TRUE, at |-> now, users |-> us, businesses |-> bs,
                       food_items |-> fs]

\* the handler returns without touching the lists or the file
Untouched ==
    /\ UNCHANGED <<users, businesses, food_items, data_file>>
    /\ presave' = NoSave

\* the handler returns early (a warning box) or is ended by an exception before it
\* changed anything
Rejected(op, why) ==
    /\ Untouched
    /\ UNCHANGED <<active_user, active_business, pay_wins, next_id, now>>
    /\ last' = [op |-> op, result |-> why]

\* do_signup returns early, for the username u
RejectedSignup(why, u) ==
    /\ Untouched
    /\ UNCHANGED <<active_user, active_business, pay_wins, next_id, now>>
    /\ last' = [op |-> "signup", result |-> why, username |-> u]

\* do_login returns early, for the entries uname and pwd
RejectedLogin(why, uname, pwd) ==
    /\ Untouched
    /\ UNCHANGED <<active_user, active_business, pay_wins, next_id, now>>
    /\ last' = [op |-> "login", result |-> why, username |-> uname, password |-> pwd]

\* re.search(r'\d', p) and re.search(r'[A-Z]', p)
HasDigit(p) == \E i \in 1..Len(p) : p[i] \in DigitSet
HasCapital(p) == \E i \in 1..Len(p) : p[i] \in Capitals

\* a rule that takes every password
WeakPasswordNever(p) == FALSE

\* the password rule of do_signup and set_new_pwd
WeakPassword(p) == Len(p) < MinPasswordLen \/ ~HasDigit(p) \/ ~HasCapital(p)

\* a comparison of usernames that ignores case
MatchesAnyCase(acc, u, p) ==
    /\ acc.username.t = "str" /\ Lower(acc.username.v) = Lower(u)
    /\ \E r \in FreshUrandom(acc.password, PyStr(p)) :
          LET v == verify_password(acc.password, PyStr(p), r) IN v.ok /\ v.val

\* usr.username == u and verify_password(usr.password, p)
Matches(acc, u, p) ==
    /\ PyEq(acc.username, PyStr(u))
    /\ \E r \in FreshUrandom(acc.password, PyStr(p)) :
          LET v == verify_password(acc.password, PyStr(p), r) IN v.ok /\ v.val

\* index of the first account of the list that Matches, 0 if none
FirstMatch(accounts, u, p) ==
    LET hits == {i \in 1..Len(accounts) : Matches(accounts[i], u, p)}
    IN  IF hits = {} THEN 0 ELSE CHOOSE i \in hits : \A j \in hits : i <= j

\* a check that looks at the users only
UsernameTakenAmongUsers(u) ==
    \E i \in 1..Len(users) : PyEq(users[i].username, PyStr(u))

\* any(u == x.username for x in users) or any(u == b.username for b in businesses)
UsernameTaken(u) ==
    \/ \E i \in 1..Len(users) : PyEq(users[i].username, PyStr(u))
    \/ \E i \in 1..Len(businesses) : PyEq(businesses[i].username, PyStr(u))

\* a session that sets the account and leaves the other kind's account active
BecomeUserKeepingBusiness(i) == active_user' = i /\ UNCHANGED active_business

\* self.active_user = usr; self.active_business = None
BecomeUser(i) == active_user' = i /\ active_business' = 0

\* self.active_business = b; self.active_user = None
BecomeBusiness(i) == active_business' = i /\ active_user' = 0

\* do_login of the login window
DoLogin(uname, pwd) ==
    LET u == Strip(uname)
        p == Strip(pwd)
        ui == FirstMatch(users, u, p)
        bi == FirstMatch(businesses, u, p)
    IN  IF u = <<>> \/ p = <<>> THEN RejectedLogin("missing", uname, pwd)
        ELSE IF ui # 0 THEN
            /\ BecomeUser(ui)
            /\ SaveAnd(users, businesses, food_items)
            /\ last' = [op |-> "login", result |-> "user", username |-> uname,
                        password |-> pwd]
            /\ UNCHANGED <<pay_wins, next_id, now>>
        ELSE IF bi # 0 THEN
            /\ BecomeBusiness(bi)
            /\ IF businesses[bi].notifications # <<>>
               THEN SaveAnd(users, [businesses EXCEPT ![bi].notifications = <<>>],
                            food_items)
               ELSE Untouched
            /\ last' = [op |-> "login", result |-> "business", username |-> uname,
                        password |-> pwd]
            /\ UNCHANGED <<pay_wins, next_id, now>>
        ELSE RejectedLogin("invalid", uname, pwd)

\* do_signup of a signup window opened for role
DoSignup(role, uname, pwd, cpwd, dname, secq, seca, rnd) ==
    LET u == Strip(uname)
        p == Strip(pwd)
        cp == Strip(cpwd)
        dn == Strip(dname)
        sa == Strip(seca)
    IN  IF u = <<>> \/ p = <<>> \/ cp = <<>> \/ dn = <<>> \/ sa = <<>>
        THEN RejectedSignup("missing", u)
        ELSE IF p # cp THEN RejectedSignup("mismatch", u)
        ELSE IF WeakPassword(p) THEN RejectedSignup("weak", u)
        ELSE IF UsernameTaken(u) THEN RejectedSignup("taken", u)
        ELSE IF role = "user" THEN
            /\ BecomeUser(Len(users) + 1)
            /\ SaveAnd(Append(users,
                              NewUser(u, p, dn, PyStr(secq), PyStr(sa), rnd, Len(users) + 1)),
                       businesses, food_items)
            /\ last' = [op |-> "signup", result |-> "user", username |-> u]
            /\ UNCHANGED <<pay_wins, next_id, now>>
        ELSE
            /\ BecomeBusiness(Len(businesses) + 1)
            /\ SaveAnd(users,
                       Append(businesses,
                              NewBusiness(u, p, dn, PyStr(secq), PyStr(sa), rnd,
                                          Len(businesses) + 1)),
                       food_items)
            /\ last' = [op |-> "signup", result |-> "business", username |-> u]
            /\ UNCHANGED <<pay_wins, next_id, now>>

\* logout_user, from the profile tab or the user menu
LogoutUser ==
    /\ active_user # 0
    /\ active_user' = 0
    /\ SaveAnd(users, businesses, food_items)
    /\ last' = [op |-> "logout", result |-> "user"]
    /\ UNCHANGED <<active_business, pay_wins, next_id, now>>

\* logout_business, from the profile tab or the business menu
LogoutBusiness ==
    /\ active_business # 0
    /\ active_business' = 0
    /\ SaveAnd(users, businesses, food_items)
    /\ last' = [op |-> "logout", result |-> "business"]
    /\ UNCHANGED <<active_user, pay_wins, next_id, now>>

\* withdraw_business
WithdrawBusiness ==
    /\ active_business # 0
    /\ SaveAnd(users, [businesses EXCEPT ![active_business].cash = 0], food_items)
    /\ last' = [op |-> "withdraw", result |-> "done"]
    /\ UNCHANGED <<active_user, active_business, pay_wins, next_id, now>>

\* confirm_add of a New Listing window: the item goes to whichever business is
\* active when the button is pressed; with none active, self.active_business.id
\* raises AttributeError
ConfirmAdd(name, category, price, hours, weight) ==
    LET pr == FloatOf(price)
        hrs == FloatOf(hours)
        wt == FloatOf(weight)
    IN  IF Strip(name) = <<>> \/ Strip(price) = <<>> \/ Strip(hours) = <<>>
           \/ Strip(weight) = <<>>
        THEN Rejected("listing", "missing")
        ELSE IF ~pr.ok \/ ~hrs.ok \/ ~wt.ok THEN Rejected("listing", "invalid")
        ELSE IF active_business = 0 THEN Rejected("listing", "raised")
        ELSE
            LET item == NewFoodItem(PyStr(Strip(name)), PyStr(Strip(category)), pr.val,
                                    businesses[active_business].id, hrs.val, wt.val,
                                    now, next_id)
            IN  /\ SaveAnd(users,
                           [businesses EXCEPT ![active_business].listings = Append(@, item)],
                           Append(food_items, item))
                /\ next_id' = next_id + 1
                /\ last' = [op |-> "listing", result |-> "added", item |-> item,
                            hours |-> hrs.val]
                /\ UNCHANGED <<active_user, active_business, pay_wins, now>>

\* the Buy button of a food card, then the Buy button of the detail window:
\* show_item_detail(item) and open_payment().  The cards show the items of the pool
\* whose expiry is after now; the payment button exists only for an active user.
OpenPayment(i) ==
    /\ active_user # 0
    /\ i \in 1..Len(food_items)
    /\ food_items[i].expiry > now
    /\ pay_wins' = Append(pay_wins, food_items[i])
    /\ Untouched
    /\ last' = [op |-> "open_payment", result |-> "opened"]
    /\ UNCHANGED <<active_user, active_business, next_id, now>>

\* the sequence s without its w-th element
RemoveAt(s, w) == SubSeq(s, 1, w - 1) \o SubSeq(s, w + 1, Len(s))

\* the Cancel button of a payment window
CancelPayment(w) ==
    /\ w \in 1..Len(pay_wins)
    /\ pay_wins' = RemoveAt(pay_wins, w)
    /\ Untouched
    /\ last' = [op |-> "cancel_payment", result |-> "closed"]
    /\ UNCHANGED <<active_user, active_business, next_id, now>>

\* a remove that leaves the list as it is
RemoveNothing(s, x) == s

\* list.remove(x): the list without its first element equal to x (ValueError, which
\* confirm ignores, when there is none)
RemoveFirst(s, x) ==
    LET hits == {i \in 1..Len(s) : s[i] = x}
    IN  IF hits = {} THEN s
        ELSE RemoveAt(s, CHOOSE i \in hits : \A j \in hits : i <= j)

\* a choice of the seller that takes the first business there is
SellerOfFirst(item) == IF businesses = <<>> THEN 0 ELSE 1

\* next((b for b in businesses if b.id == item.business_id), None): its index, or 0
SellerOf(item) ==
    LET hits == {i \in 1..Len(businesses) : PyEq(businesses[i].id, item.business_id)}
    IN  IF hits = {} THEN 0 ELSE CHOOSE i \in hits : \A j \in hits : i <= j

\* the notification text of a sale
SaleNote(buyer, item, t) ==
    PyStr(buyer.name.v \o <<" ">> \o item.name.v \o <<" ">> \o IntText(item.price)
          \o <<" ">> \o IntText(t))

\* confirm of the w-th payment window; form_ok says whether the card form passes
\* its checks.  With no active user self.active_user.purchases raises
\* AttributeError.  A payment accepted destroys the payment window and its detail
\* window.
ConfirmPayment(w, form_ok) ==
    /\ w \in 1..Len(pay_wins)
    /\ LET item == pay_wins[w]
           biz == SellerOf(item)
           us1 == [users EXCEPT ![active_user].purchases = Append(@, item)]
           bs1 == IF biz = 0 THEN businesses
                  ELSE [businesses EXCEPT
                          ![biz].cash = @ + item.price,
                          ![biz].notifications =
                              Append(@, SaleNote(users[active_user], item, now))]
       IN  IF ~form_ok THEN Rejected("purchase", "form")
           ELSE IF active_user = 0 THEN Rejected("purchase", "raised")
           ELSE
               /\ SaveAnd(us1, bs1, RemoveFirst(food_items, item))
               /\ pay_wins' = RemoveAt(pay_wins, w)
               /\ last' = [op |-> "purchase", result |-> "paid", item |-> item,
                           buyer |-> active_user, seller |-> biz]
               /\ UNCHANGED <<active_user, active_business, next_id, now>>

\* the account next_step of the Forgot Password window finds: a user first, then a
\* business; <<kind, index>>, or <<"none", 0>>
AccountNamed(u) ==
    LET uh == {i \in 1..Len(users) : PyEq(users[i].username, PyStr(u))}
        bh == {i \in 1..Len(businesses) : PyEq(businesses[i].username, PyStr(u))}
    IN  IF uh # {} THEN <<"user", CHOOSE i \in uh : \A j \in uh : i <= j>>
        ELSE IF bh # {} THEN <<"business", CHOOSE i \in bh : \A j \in bh : i <= j>>
        ELSE <<"none", 0>>

\* a value is truthy: not None and not the empty string
Truthy(x) == x.t # "none" /\ ~(x.t = "str" /\ x.v = <<>>)

\* next_step, check_answer and set_new_pwd of the Forgot Password window, one after
\* the other (the account found by next_step is never removed or renamed meanwhile)
ResetPassword(uname, answer, npwd, cpwd, rnd) ==
    LET acc == AccountNamed(Strip(uname))
        obj == IF acc[1] = "user" THEN users[acc[2]] ELSE businesses[acc[2]]
        np == Strip(npwd)
        cp == Strip(cpwd)
        h == hash_password(PyStr(np), PyNone, PyInt(DefaultIterations), rnd).val
        why == IF acc[1] = "none" THEN "no_account"
               ELSE IF ~Truthy(obj.sec_q) THEN "no_account"
               ELSE IF Lower(Strip(answer))
                          # Lower(IF Truthy(obj.sec_a) THEN obj.sec_a.v ELSE <<>>)
               THEN "answer"
               ELSE IF np # cp THEN "mismatch"
               ELSE IF WeakPassword(np) THEN "weak"
               ELSE acc[1]
    IN  /\ IF why = "user"
           THEN SaveAnd([users EXCEPT ![acc[2]].password = h], businesses, food_items)
           ELSE IF why = "business"
           THEN SaveAnd(users, [businesses EXCEPT ![acc[2]].password = h], food_items)
           ELSE Untouched
        /\ last' = [op |-> "reset", result |-> why, username |-> uname,
                    answer |-> answer, password |-> npwd, confirm |-> cpwd]
        /\ UNCHANGED <<active_user, active_business, pay_wins, next_id, now>>

\* the clock advances by d hours
Tick(d) ==
    /\ now' = now + d
    /\ Untouched
    /\ last' = [op |-> "tick", result |-> "tick"]
    /\ UNCHANGED <<active_user, active_business, pay_wins, next_id>>


-----------------------------------------------------------------------------
(* The marketplace from a first start with no data file: one shopper and one      *)
(* seller sign up, list, buy, withdraw and reset while the clock runs.            *)

\* accounts of each kind, items listed, payment windows open at once, hours run
MaxUsers == 1
MaxBusinesses == 1
MaxItems == 1
MaxWindows == 2
MaxTime == 36

Alice == <<"a", "l">>
AliceCapital == <<"A", "l">>
Bakery == <<"b", "k">>
Passw0rd == <<"P", "a", "s", "s", "w", "0", "r", "d">>
LowerPassw0rd == <<"p", "a", "s", "s", "w", "0", "r", "d">>
Secret12 == <<"S", "e", "c", "r", "e", "t", "1", "2">>
DisplayName == <<"N">>
\* SECURITY_QUESTIONS[0]
SecurityQuestion == <<"f", "o", "o", "d", "?">>
AnswerGiven == <<"P", "i", "e">>

ItemNames == {<<"B", "r", "e", "a", "d">>}
Categories == {<<"F", "r", "u", "i", "t">>}
PriceEntries == {<<"2", "5", "0">>, <<"-", "2", "0", "0">>}
HoursEntries == {<<"1", "2">>, <<"-", "3", "6">>}
WeightEntries == {<<"1">>}
TickSteps == {12}

\* a first start: no data file, so the migration save writes the empty document
Init ==
    /\ users = <<>> /\ businesses = <<>> /\ food_items = <<>>
    /\ active_user = 0 /\ active_business = 0
    /\ data_file = save_data(<<>>, <<>>, <<>>, 0).file
    /\ now = 0 /\ pay_wins = <<>> /\ next_id = 1
    /\ presave = NoSave /\ last = NoLast
    /\ StartBlank
    /\ pc = "ready" /\ arg = PyNone /\ res = Raise

\* the handlers as the event loop runs them, on the entries of the model
Login ==
    /\ \E u \in {Alice, Bakery} : DoLogin(u, Passw0rd)
    /\ UNCHANGED <<startvars, pc, arg, res>>

SignupUser ==
    /\ Len(users) < MaxUsers
    /\ DoSignup("user", Alice, Passw0rd, Passw0rd, DisplayName, SecurityQuestion,
                AnswerGiven, Salt0)
    /\ UNCHANGED <<startvars, pc, arg, res>>

SignupBusiness ==
    /\ Len(businesses) < MaxBusinesses
    /\ DoSignup("business", Bakery, Passw0rd, Passw0rd, DisplayName, SecurityQuestion,
                AnswerGiven, Salt0)
    /\ UNCHANGED <<startvars, pc, arg, res>>

UserLogsOut == LogoutUser /\ UNCHANGED <<startvars, pc, arg, res>>

BusinessLogsOut == LogoutBusiness /\ UNCHANGED <<startvars, pc, arg, res>>

Withdraw == WithdrawBusiness /\ UNCHANGED <<startvars, pc, arg, res>>

AddListing ==
    /\ next_id <= MaxItems
    /\ businesses # <<>>
    /\ \E n \in ItemNames, c \in Categories, p \in PriceEntries,
          h \in HoursEntries, w \in WeightEntries : ConfirmAdd(n, c, p, h, w)
    /\ UNCHANGED <<startvars, pc, arg, res>>

Buy ==
    /\ Len(pay_wins) < MaxWindows
    /\ \E i \in 1..Len(food_items) : OpenPayment(i)
    /\ UNCHANGED <<startvars, pc, arg, res>>

Cancel ==
    /\ \E w \in 1..Len(pay_wins) : CancelPayment(w)
    /\ UNCHANGED <<startvars, pc, arg, res>>

Pay ==
    /\ \E w \in 1..Len(pay_wins), ok \in BOOLEAN : ConfirmPayment(w, ok)
    /\ UNCHANGED <<startvars, pc, arg, res>>

Reset ==
    /\ \E u \in {Alice, Bakery} :
          ResetPassword(u, AnswerGiven, Passw0rd, Passw0rd, Salt0)
    /\ UNCHANGED <<startvars, pc, arg, res>>

HoursPass ==
    /\ now < MaxTime
    /\ \E d \in TickSteps : Tick(d)
    /\ UNCHANGED <<startvars, pc, arg, res>>

Next ==
    \/ Login
    \/ SignupUser
    \/ SignupBusiness
    \/ UserLogsOut
    \/ BusinessLogsOut
    \/ Withdraw
    \/ AddListing
    \/ Buy
    \/ Cancel
    \/ Pay
    \/ Reset
    \/ HoursPass

Spec == Init /\ [][Next]_vars

-----------------------------------------------------------------------------
(* The account handlers on their own, over the entries of the forms: names that   *)
(* differ in case or by surrounding blanks, weak and mismatched passwords, wrong   *)
(* answers, different salts.                                                       *)

\* accounts of each kind
AuthMaxUsers == 2
AuthMaxBusinesses == 2

UsernameEntries == {Alice, AliceCapital, <<" ">> \o Alice, <<>>}
SignupPasswords == {Passw0rd, LowerPassw0rd}
LoginPasswords == {Passw0rd, LowerPassw0rd, Secret12}
ResetPasswords == {Secret12, <<"S", "1">>}
AnswerEntries == {AnswerGiven, <<"p", "i", "e">>, <<"x">>}
ResetUsernames == {Alice, <<" ">> \o Alice}
AppSalts == {Salt0, [i \in 1..SaltLen |-> 10]}

AuthLogin ==
    /\ \E u \in UsernameEntries, p \in LoginPasswords : DoLogin(u, p)
    /\ UNCHANGED <<startvars, pc, arg, res>>

AuthSignupUser ==
    /\ Len(users) < AuthMaxUsers
    /\ \E u \in UsernameEntries, p \in SignupPasswords, cp \in SignupPasswords,
          r \in AppSalts :
          DoSignup("user", u, p, cp, DisplayName, SecurityQuestion, AnswerGiven, r)
    /\ UNCHANGED <<startvars, pc, arg, res>>

AuthSignupBusiness ==
    /\ Len(businesses) < AuthMaxBusinesses
    /\ \E u \in UsernameEntries, p \in SignupPasswords, cp \in SignupPasswords,
          r \in AppSalts :
          DoSignup("business", u, p, cp, DisplayName, SecurityQuestion, AnswerGiven, r)
    /\ UNCHANGED <<startvars, pc, arg, res>>

AuthReset ==
    /\ \E u \in ResetUsernames, a \in AnswerEntries, p \in ResetPasswords,
          cp \in ResetPasswords : ResetPassword(u, a, p, cp, Salt0)
    /\ UNCHANGED <<startvars, pc, arg, res>>

AuthNext ==
    \/ AuthLogin
    \/ AuthSignupUser
    \/ AuthSignupBusiness
    \/ UserLogsOut
    \/ BusinessLogsOut
    \/ AuthReset

SpecAuth == Init /\ [][AuthNext]_vars

-----------------------------------------------------------------------------
(* Properties of the marketplace *)

\* the list items holds an item with the id of x
HasItem(items, x) == \E i \in 1..Len(items) : PyEq(items[i].id, x.id)

\* the step is a payment that went through
Paid == last'.op = "purchase" /\ last'.result = "paid"

\* C1: after a successful purchase of item X by the active user U from business B,
\* X is in U.purchases, X is absent from the pool food_items and from B.listings,
\* and B.cash has grown by exactly X.price.
PurchaseIsAtomic ==
    [][Paid =>
         LET x == last'.item
             u == last'.buyer
             b == last'.seller
         IN  /\ HasItem(users'[u].purchases, x)
             /\ ~HasItem(food_items', x)
             /\ ~HasItem(businesses'[b].listings, x)
             /\ businesses'[b].cash = businesses[b].cash + x.price]_vars

\* C2: in every state no item is both for sale and sold: an item in any user's
\* purchases is neither in the pool nor in any business's listings.
NeverForSaleAndSold ==
    \A u \in 1..Len(users) : \A k \in 1..Len(users[u].purchases) :
        LET x == users[u].purchases[k]
        IN  /\ ~HasItem(food_items, x)
            /\ \A b \in 1..Len(businesses) : ~HasItem(businesses[b].listings, x)

\* the items of a list that a save at hour t keeps, per the 24 hours of the claim
KeptAt(items, t) == SelectSeq(items, LAMBDA f : f.expiry > t - 24)

\* the array doc of the written document holds the items of the list items
Written(doc, items) ==
    /\ doc.t = "list"
    /\ Len(doc.v) = Len(items)
    /\ \A i \in 1..Len(items) :
          /\ PyEq(doc.v[i].v.id, items[i].id)
          /\ FromIsoFormat(doc.v[i].v.expiry.v) = Ret(items[i].expiry)

\* C3: every save at hour t keeps an item exactly when its expiry is after t - 24h,
\* in all three places at once: after the handler that saved, the pool, every
\* business's listings and every user's purchases are what they were when the save
\* began less the items with expiry <= t - 24h, and the written document holds the
\* same items.
SaveSweepsEverywhere ==
    presave.saved =>
        LET t == presave.at
            doc == data_file.val.v
        IN  /\ food_items = KeptAt(presave.food_items, t)
            /\ Len(users) = Len(presave.users)
            /\ Len(businesses) = Len(presave.businesses)
            /\ \A i \in 1..Len(users) :
                  users[i].purchases = KeptAt(presave.users[i].purchases, t)
            /\ \A i \in 1..Len(businesses) :
                  businesses[i].listings = KeptAt(presave.businesses[i].listings, t)
            /\ data_file.kind = "json"
            /\ Written(doc.food_items, food_items)
            /\ Len(doc.users.v) = Len(users)
            /\ Len(doc.businesses.v) = Len(businesses)
            /\ \A i \in 1..Len(users) :
                  Written(doc.users.v[i].v.purchases, users[i].purchases)
            /\ \A i \in 1..Len(businesses) :
                  Written(doc.businesses.v[i].v.listings, businesses[i].listings)

\* a save found an item exactly 24 hours past its expiry in the listings and in the
\* purchases, and both lost it
SaveSweptAtTheBoundary ==
    /\ presave.saved
    /\ \E i \in 1..Len(presave.users) :
          /\ \E k \in 1..Len(presave.users[i].purchases) :
                presave.users[i].purchases[k].expiry = presave.at - 24
          /\ users[i].purchases = <<>>
    /\ \E i \in 1..Len(presave.businesses) :
          /\ \E k \in 1..Len(presave.businesses[i].listings) :
                presave.businesses[i].listings[k].expiry = presave.at - 24
          /\ businesses[i].listings = <<>>

\* C4: at most one of active_user and active_business is set, after any sequence of
\* signups, logins, logouts, purchases, listings, withdrawals and password resets.
AtMostOneActive == ~(active_user # 0 /\ active_business # 0)

\* a user logged in after a business had listed: the session is the user's alone
UserTookOverSession ==
    /\ last.op = "login" /\ last.result = "user"
    /\ active_user # 0 /\ active_business = 0
    /\ \E i \in 1..Len(businesses) : businesses[i].listings # <<>>

\* C6: in every step each business's cash is unchanged, grows, or becomes exactly
\* zero; it never decreases to a non-zero value and so is never negative.
CashGrowsOrResets ==
    [][\A b \in 1..Len(businesses) :
          \/ businesses'[b].cash >= businesses[b].cash
          \/ businesses'[b].cash = 0]_vars

-----------------------------------------------------------------------------
(* Properties of the account handlers *)

\* the step is a signup, successful or not
SignupStep == last'.op = "signup"

\* some user or some business has exactly the username u
NameInUse(u) ==
    \/ \E i \in 1..Len(users) : users[i].username = PyStr(u)
    \/ \E i \in 1..Len(businesses) : businesses[i].username = PyStr(u)

\* C5: a signup, as user or as business, with a username equal case-sensitively to
\* that of an existing user or business is rejected and leaves users, businesses,
\* the session and the file as they were; a username differing from the existing
\* ones only in case counts as different: a signup is turned down as taken only for
\* an equal username.
SignupRejectsDuplicate ==
    [][SignupStep =>
         /\ NameInUse(last'.username) =>
               /\ last'.result \notin {"user", "business"}
               /\ UNCHANGED <<users, businesses, active_user, active_business, data_file>>
         /\ last'.result = "taken" => NameInUse(last'.username)]_vars

\* "Al" signed up beside "al", and a further signup as "Al" was turned down
SignupDuplicateTurnedDown ==
    /\ last.op = "signup" /\ last.result = "taken"
    /\ last.username = AliceCapital
    /\ \E i \in 1..Len(users) : users[i].username = PyStr(Alice)
    /\ \E i \in 1..Len(businesses) : businesses[i].username = PyStr(AliceCapital)

-----------------------------------------------------------------------------
(* Startup: building the lists from the raw document *)

\* d.get(k, default) on a dict
DictGet(d, k, default) == IF k \in DOMAIN d.v THEN d.v[k] ELSE default

\* a test that takes every value for false
IsTruthyNever(x) == FALSE

\* bool(x)
IsTruthy(x) ==
    CASE x.t = "none" -> FALSE
      [] x.t \in {"str", "list"} -> Len(x.v) > 0
      [] x.t \in {"int", "float"} -> x.v # 0
      [] x.t = "dict" -> DOMAIN x.v # {}
      [] OTHER -> TRUE

\* float(x): TypeError or ValueError for what is no number
FloatOfValue(x) ==
    CASE x.t \in {"int", "float"} -> Ret(x.v)
      [] x.t = "str" -> FloatOf(x.v)
      [] OTHER -> Raise

\* the parameters of FoodItem.__init__, and those without a default
ItemParams == {"name", "category", "price", "business_id", "expiry", "id", "hours",
               "weight", "distance"}
ItemRequired == {"name", "category", "price", "business_id"}

\* a datetime object handed to FoodItem; float("inf")
PyDatetime(x) == [t |-> "datetime", v |-> x]
PyFloatInf == [t |-> "inf", v |-> 0]

\* dt.timedelta(hours=hours): TypeError for what is no number, OverflowError for an
\* infinite one
Timedelta(hours) == IF hours.t \in {"int", "float"} THEN Ret(hours.v) ELSE Raise

\* the expiry FoodItem.__init__ sets at time t: the parsed text, the datetime as it
\* is, and now + timedelta(hours=hours) for a text that does not parse, for None
\* and for anything else
FoodItemExpiry(expiry, hours, t) ==
    LET parsed == IF expiry.t = "str" THEN FromIsoFormat(expiry.v) ELSE Raise
        delta == Timedelta(hours)
    IN  IF parsed.ok THEN parsed
        ELSE IF expiry.t = "datetime" THEN Ret(expiry.v)
        ELSE IF delta.ok THEN Ret(t + delta.val)
        ELSE Raise

\* FoodItem(**d) at time t; fresh is the uuid4 an item without id gets.  TypeError
\* for what is no dict, for a missing or an unknown parameter, and for hours that
\* timedelta cannot take
ItemFromDict(d, t, fresh) ==
    IF d.t # "dict" THEN Raise
    ELSE IF ~(ItemRequired \subseteq DOMAIN d.v) \/ ~(DOMAIN d.v \subseteq ItemParams)
    THEN Raise
    ELSE LET price == FloatOfValue(d.v.price)
             weight == FloatOfValue(DictGet(d, "weight", PyFloat(0)))
             exp == FoodItemExpiry(DictGet(d, "expiry", PyNone),
                                   DictGet(d, "hours", PyInt(0)), t)
             id == DictGet(d, "id", PyNone)
         IN  IF ~price.ok \/ ~weight.ok \/ ~exp.ok THEN Raise
             ELSE Ret([name |-> d.v.name, category |-> d.v.category,
                       price |-> price.val, weight |-> weight.val,
                       distance |-> DictGet(d, "distance",
                                            PyStr(<<"U", "n", "k", "n", "o", "w", "n">>)),
                       expiry |-> exp.val,
                       business_id |-> d.v.business_id,
                       id |-> IF IsTruthy(id) THEN id ELSE fresh])

\* for p in ds: try: out.append(FoodItem(**p)) except Exception: pass
RECURSIVE ItemsFromDicts(_, _, _, _)
ItemsFromDicts(ds, t, kind, n) ==
    IF ds = <<>> THEN <<>>
    ELSE LET it == ItemFromDict(Head(ds), t, Uuid(kind, n))
             rest == ItemsFromDicts(Tail(ds), t, kind, n + 1)
         IN  IF it.ok THEN <<it.val>> \o rest ELSE rest

\* what a for loop over x visits that can be an item or an account: the elements of
\* a list; the characters of a str and the keys of a dict are neither
Iterable(x) == x.t \in {"list", "str", "dict"}
DictsOf(x) == IF x.t = "list" THEN x.v ELSE <<>>

\* a load that keeps a stored password as it finds it, a raw string too
LoadedPasswordAsIs(pwd, rnd) ==
    IF pwd.t \in {"str", "dict"} THEN Ret(pwd) ELSE Raise

\* a load that hashes whatever it finds, the hash text of a stored record too
LoadedPasswordRehashing(pwd, rnd) ==
    IF pwd.t = "str" THEN hash_password(pwd, PyNone, PyInt(DefaultIterations), rnd)
    ELSE IF pwd.t = "dict" /\ "hash" \in DOMAIN pwd.v
    THEN hash_password(pwd.v.hash, PyNone, PyInt(DefaultIterations), rnd)
    ELSE Raise

\* the password the load loops hand to User and Business, and what __init__ makes of
\* it: a str is hashed, a dict is kept, anything else raises AttributeError
LoadedPassword(pwd, rnd) ==
    IF pwd.t = "str" THEN hash_password(pwd, PyNone, PyInt(DefaultIterations), rnd)
    ELSE IF pwd.t = "dict" THEN Ret(pwd)
    ELSE Raise

\* one round of the users loop; i is the position of ru in the document
UserFromDict(ru, t, rnd, i) ==
    IF ru.t # "dict" THEN Raise
    ELSE LET ps == DictGet(ru, "purchases", PyList(<<>>))
             pwd == LoadedPassword(DictGet(ru, "password", PyNone), rnd)
             username == DictGet(ru, "username", PyNone)
             id == DictGet(ru, "id", PyNone)
         IN  IF ~Iterable(ps) \/ ~pwd.ok THEN Raise
             ELSE Ret([username |-> username, password |-> pwd.val,
                       name |-> DictGet(ru, "name", username),
                       id |-> IF IsTruthy(id) THEN id ELSE Uuid("u", 100 + i),
                       purchases |-> ItemsFromDicts(DictsOf(ps), t, "p", 100 * i),
                       sec_q |-> DictGet(ru, "sec_q", PyNone),
                       sec_a |-> DictGet(ru, "sec_a", PyNone)])

\* one round of the businesses loop: sec_q and sec_a are not passed on, so they are
\* None; the documents of the model hold a list of notifications, or none
BusinessFromDict(rb, t, rnd, i) ==
    IF rb.t # "dict" THEN Raise
    ELSE LET ls == DictGet(rb, "listings", PyList(<<>>))
             pwd == LoadedPassword(DictGet(rb, "password", PyNone), rnd)
             username == DictGet(rb, "username", PyNone)
             id == DictGet(rb, "id", PyNone)
             cash == FloatOfValue(DictGet(rb, "cash", PyFloat(0)))
             notes == DictGet(rb, "notifications", PyList(<<>>))
         IN  IF ~Iterable(ls) \/ ~pwd.ok \/ ~cash.ok THEN Raise
             ELSE Ret([username |-> username, password |-> pwd.val,
                       name |-> DictGet(rb, "name", username),
                       id |-> IF IsTruthy(id) THEN id ELSE Uuid("b", 100 + i),
                       listings |-> ItemsFromDicts(DictsOf(ls), t, "l", 100 * i),
                       cash |-> cash.val,
                       notifications |-> IF notes.t = "list" THEN notes.v ELSE <<>>,
                       sec_q |-> PyNone, sec_a |-> PyNone])

\* the three load loops on the document doc at time t: the lists, or the exception
\* that ends the program
BuildLists(doc, t, rnd) ==
    IF doc.t # "dict" THEN Raise
    ELSE LET rus == DictGet(doc, "users", PyList(<<>>))
             rbs == DictGet(doc, "businesses", PyList(<<>>))
             rfs == DictGet(doc, "food_items", PyList(<<>>))
             us == [i \in 1..Len(DictsOf(rus)) |-> UserFromDict(rus.v[i], t, rnd, i)]
             bs == [i \in 1..Len(DictsOf(rbs)) |-> BusinessFromDict(rbs.v[i], t, rnd, i)]
         IN  IF \/ ~Iterable(rus) \/ ~Iterable(rbs) \/ ~Iterable(rfs)
                \/ (rus.t # "list" /\ IsTruthy(rus)) \/ (rbs.t # "list" /\ IsTruthy(rbs))
                \/ \E i \in 1..Len(us) : ~us[i].ok
                \/ \E i \in 1..Len(bs) : ~bs[i].ok
             THEN Raise
             ELSE Ret([users |-> [i \in 1..Len(us) |-> us[i].val],
                       businesses |-> [i \in 1..Len(bs) |-> bs[i].val],
                       food_items |-> ItemsFromDicts(DictsOf(rfs), t, "g", 1)])

-----------------------------------------------------------------------------
(* Startup: the main thread starts the load thread, waits for it at most the       *)
(* timeout of join, takes what the queue holds and builds the lists.  The load     *)
(* thread runs load_data and puts the result; nothing orders it against the main   *)
(* thread but the join.                                                            *)

\* t.start()
StartThread ==
    /\ pc = "start"
    /\ pc' = "join"
    /\ tpc' = "load"
    /\ UNCHANGED <<appvars, data_queue, raw, deadline, put_at, arg, res>>

\* load_data_thread: load_data()
ThreadLoad ==
    /\ tpc = "load"
    /\ tpc' = "put"
    /\ res' = load_data(data_file)
    /\ UNCHANGED <<appvars, pc, data_queue, raw, deadline, put_at, arg>>

\* load_data_thread: q.put(...), after which the thread ends
ThreadPut ==
    /\ tpc = "put"
    /\ tpc' = "done"
    /\ data_queue' = Append(data_queue, res.val)
    /\ put_at' = IF deadline # "passed" THEN "before_deadline"
                 ELSE IF pc = "check" THEN "before_check"
                 ELSE "after_check"
    /\ UNCHANGED <<appvars, pc, raw, deadline, arg, res>>

\* t.join(timeout=1) returns because the thread has ended
JoinDone ==
    /\ pc = "join"
    /\ tpc = "done"
    /\ pc' = "check"
    /\ deadline' = "met"
    /\ UNCHANGED <<appvars, tpc, data_queue, raw, put_at, arg, res>>

\* t.join(timeout=1) returns because the second is over, the thread still running
JoinTimeout ==
    /\ pc = "join"
    /\ tpc # "done"
    /\ pc' = "check"
    /\ deadline' = "passed"
    /\ UNCHANGED <<appvars, tpc, data_queue, raw, put_at, arg, res>>

\* raw = data_queue.get() with no look at empty(): it blocks until there is a result
CheckQueueGet ==
    /\ pc = "check"
    /\ data_queue # <<>>
    /\ pc' = "build"
    /\ raw' = Head(data_queue) /\ data_queue' = Tail(data_queue)
    /\ UNCHANGED <<appvars, tpc, deadline, put_at, arg, res>>

\* if not data_queue.empty(): raw = data_queue.get() else: raw = the empty document
CheckQueue ==
    /\ pc = "check"
    /\ pc' = "build"
    /\ IF data_queue # <<>>
       THEN raw' = Head(data_queue) /\ data_queue' = Tail(data_queue)
       ELSE raw' = EmptyDocument /\ UNCHANGED data_queue
    /\ UNCHANGED <<appvars, tpc, deadline, put_at, arg, res>>

\* the load loops and the save_data() that follows them; an exception of the loops
\* ends the program
Build(rnd) ==
    /\ pc = "build"
    /\ LET b == BuildLists(raw, now, rnd)
       IN  IF b.ok
           THEN /\ SaveAnd(b.val.users, b.val.businesses, b.val.food_items)
                /\ pc' = "ready"
           ELSE /\ Untouched
                /\ pc' = "crashed"
    /\ last' = [op |-> "startup", result |-> pc']
    /\ UNCHANGED <<active_user, active_business, now, pay_wins, next_id, startvars,
                   arg, res>>

\* hour of the start
StartHour == 40

\* an item the seller b1 listed, expiring at hour e
StoredItem(e, n) ==
    NewFoodItem(PyStr(<<"B", "r", "e", "a", "d">>), PyStr(<<"F", "r", "u", "i", "t">>),
                250, Uuid("b", 1), 0, 1, e, n)

StoredUser(ps) ==
    [NewUser(Alice, Passw0rd, DisplayName, PyStr(SecurityQuestion), PyStr(AnswerGiven),
             Salt0, 1) EXCEPT !.purchases = ps]

StoredBusiness(ls) ==
    [NewBusiness(Bakery, Passw0rd, DisplayName, PyStr(SecurityQuestion),
                 PyStr(AnswerGiven), Salt0, 1) EXCEPT !.listings = ls]

\* the document json.dump writes for the lists us, bs, fs
Document(us, bs, fs) ==
    PyDict([users |-> PyList([i \in 1..Len(us) |-> UserToDict(us[i])]),
            businesses |-> PyList([i \in 1..Len(bs) |-> BusinessToDict(bs[i])]),
            food_items |-> PyList([i \in 1..Len(fs) |-> FoodItemToDict(fs[i])])])

ExpiryHours == {StartHour - 30, StartHour - 24, StartHour - 10, StartHour + 5}

\* a record of an account as the first versions stored it: the password a raw string
LegacyAccount(username, p) ==
    PyDict([username |-> PyStr(username), password |-> PyStr(p),
            name |-> PyStr(DisplayName)])

LegacyPasswords == {Passw0rd, LowerPassw0rd, <<>>}

\* documents with raw-string passwords: a user, a business, or both
LegacyFiles ==
    {FileJson(PyDict([users |-> PyList(us), businesses |-> PyList(bs),
                      food_items |-> PyList(<<>>)])) :
        us \in {<<>>} \cup {<<LegacyAccount(Alice, p)>> : p \in LegacyPasswords},
        bs \in {<<>>} \cup {<<LegacyAccount(Bakery, p)>> : p \in LegacyPasswords}}

\* a stored item whose expiry text is no timestamp; one without its name
BadExpiryItem(n) ==
    [FoodItemToDict(StoredItem(StartHour + 5, n)) EXCEPT !.v.expiry = PyStr(<<"x">>)]
NamelessItem(n) ==
    LET d == FoodItemToDict(StoredItem(StartHour + 5, n))
    IN  PyDict([k \in DOMAIN d.v \ {"name"} |-> d.v[k]])

\* a stored user with the purchases ps, given as the file holds them
UserHolding(ps) == [UserToDict(StoredUser(<<>>)) EXCEPT !.v.purchases = PyList(ps)]

\* documents with one malformed record next to well-formed ones: an item with a bad
\* expiry or without a name, in the pool or in a user's purchases; a user without a
\* password; a user record that is a number
MalformedFiles ==
    {FileJson(PyDict([users |-> PyList(<<UserHolding(ps)>>),
                      businesses |-> PyList(<<BusinessToDict(StoredBusiness(<<>>))>>),
                      food_items |-> PyList(fs)])) :
        ps \in {<<>>, <<NamelessItem(7), FoodItemToDict(StoredItem(StartHour + 5, 8))>>},
        fs \in {<<BadExpiryItem(5)>>,
                <<NamelessItem(5), FoodItemToDict(StoredItem(StartHour + 5, 6))>>}}
    \cup {FileJson(PyDict([users |-> PyList(<<u, UserToDict(StoredUser(<<>>))>>),
                           businesses |-> PyList(<<BusinessToDict(StoredBusiness(<<>>))>>),
                           food_items |-> PyList(<<>>)])) :
            u \in {PyInt(1),
                   PyDict([username |-> PyStr(AliceCapital), password |-> PyNone])}}

\* the data files startup is run on: none, texts, and documents of an earlier run
StartupFiles ==
    {FileMissing, FileText(<<>>), FileText(<<"[">>), FileText(<<"{", "}">>),
     FileText(<<"[", "]">>), FileText(<<"1">>)}
    \cup {FileJson(Document(us, bs, fs)) :
            us \in {<<>>, <<StoredUser(<<>>)>>},
            bs \in {<<>>, <<StoredBusiness(<<>>)>>},
            fs \in {<<>>} \cup {<<StoredItem(e, 7)>> : e \in ExpiryHours}}
    \cup {FileJson(Document(<<StoredUser(<<StoredItem(e, 7)>>)>>,
                            <<StoredBusiness(<<StoredItem(e, 7)>>)>>, <<>>)) :
            e \in ExpiryHours}
    \cup {FileJson(PyDict([users |-> PyList(<<PyDict([username |-> PyStr(Alice),
                                                      password |-> p])>>)])) :
            p \in {PyStr(Passw0rd), PyNone}}
    \cup LegacyFiles
    \cup MalformedFiles

StartupInit ==
    /\ users = <<>> /\ businesses = <<>> /\ food_items = <<>>
    /\ active_user = 0 /\ active_business = 0
    /\ data_file \in StartupFiles
    /\ now = StartHour /\ pay_wins = <<>> /\ next_id = 1
    /\ presave = NoSave /\ last = NoLast
    /\ StartBlank
    /\ pc = "start" /\ arg = PyNone /\ res = Raise

StartupNext ==
    \/ StartThread
    \/ ThreadLoad
    \/ ThreadPut
    \/ JoinDone
    \/ JoinTimeout
    \/ CheckQueue
    \/ \E r \in AppSalts : Build(r)

SpecStartup == StartupInit /\ [][StartupNext]_vars

\* the main thread has taken its raw document
RawTaken == pc \in {"build", "ready", "crashed"}

\* C10 as stated: the deadline of the join decides.  The lists are built from the
\* loaded document if the load thread delivered it before the deadline, from the
\* empty document otherwise; a document delivered after the deadline is not applied.
StartupDeadlineDecides ==
    RawTaken =>
        IF put_at = "before_deadline" THEN raw = res.val ELSE IsEmptyDocument(raw)

\* C10, amended: the main thread never waits for the load thread beyond the join's
\* timeout, and the single look at the queue after the join decides.  The lists are
\* built from the loaded document if it was in the queue at that look (delivered
\* before the deadline, or after it but before the look), from the empty document
\* otherwise; a document delivered after the look is not applied.
StartupQueueCheckDecides ==
    /\ pc = "join" => ENABLED (JoinDone \/ JoinTimeout)
    /\ pc = "check" => ENABLED CheckQueue
    /\ RawTaken =>
          IF put_at \in {"before_deadline", "before_check"}
          THEN raw = res.val
          ELSE IsEmptyDocument(raw)

\* the load thread delivered a stored account after the main thread had looked: the
\* lists were built empty and the document is left in the queue
StartupLateResultDiscarded ==
    /\ pc = "ready"
    /\ put_at = "after_check"
    /\ data_queue # <<>>
    /\ ~IsEmptyDocument(Head(data_queue))
    /\ IsEmptyDocument(raw)
    /\ users = <<>>

-----------------------------------------------------------------------------
(* The marketplace over several runs: the application is closed and started      *)
(* again on the file the last save wrote.  The start is taken in one step, with   *)
(* the two outcomes the startup threads have: the loaded document reached the     *)
(* queue before the main thread looked, or it did not.                            *)

\* the program starts: load, the load loops, the migration save, a new App with no
\* session and no window
StartApp(in_time, rnd) ==
    /\ LET doc == IF in_time THEN load_data(data_file).val ELSE EmptyDocument
           b == BuildLists(doc, now, rnd)
       IN  IF b.ok
           THEN /\ SaveAnd(b.val.users, b.val.businesses, b.val.food_items)
                /\ pc' = "ready"
           ELSE /\ Untouched
                /\ pc' = "crashed"
    /\ active_user' = 0 /\ active_business' = 0
    /\ pay_wins' = <<>>
    /\ last' = [op |-> "restart", result |-> IF in_time THEN "loaded" ELSE "timeout"]
    /\ UNCHANGED <<now, next_id, startvars, arg, res>>

\* the program ends and starts again
Restart(in_time, rnd) == pc = "ready" /\ StartApp(in_time, rnd)

Restarts == \E in_time \in BOOLEAN : Restart(in_time, Salt0)

RestartNext == (pc = "ready" /\ Next) \/ Restarts

SpecRestart == Init /\ [][RestartNext]_vars

\* two lists of items hold the same items: ids, names, prices, categories, expiries
ItemsAlike(a, b) ==
    /\ Len(a) = Len(b)
    /\ \A i \in 1..Len(a) :
          /\ a[i].id = b[i].id /\ a[i].name = b[i].name /\ a[i].price = b[i].price
          /\ a[i].category = b[i].category /\ a[i].expiry = b[i].expiry
          /\ a[i].business_id = b[i].business_id

\* every item of the list is within the retention window at hour t
AllWithinWindow(items, t) == \A i \in 1..Len(items) : items[i].expiry > t - 24

\* the step is a restart whose load came in time, from lists (the entity set the
\* last save wrote) whose items are all within the retention window
RestartOfRetainedSet ==
    /\ last'.op = "restart" /\ last'.result = "loaded"
    /\ AllWithinWindow(food_items, now)
    /\ \A i \in 1..Len(users) : AllWithinWindow(users[i].purchases, now)
    /\ \A i \in 1..Len(businesses) : AllWithinWindow(businesses[i].listings, now)

\* C11: round trip.  For an entity set whose items are all within the retention
\* window, saving it and loading the written document (in time) gives the same
\* logical records: the same accounts and items, with the same ids, names, prices,
\* categories and expiries, in the same collections.
RoundTripKeepsRecords ==
    [][RestartOfRetainedSet =>
         /\ ItemsAlike(food_items', food_items)
         /\ Len(users') = Len(users)
         /\ Len(businesses') = Len(businesses)
         /\ \A i \in 1..Len(users) :
               /\ users'[i].id = users[i].id
               /\ users'[i].username = users[i].username
               /\ users'[i].name = users[i].name
               /\ ItemsAlike(users'[i].purchases, users[i].purchases)
         /\ \A i \in 1..Len(businesses) :
               /\ businesses'[i].id = businesses[i].id
               /\ businesses'[i].username = businesses[i].username
               /\ businesses'[i].name = businesses[i].name
               /\ ItemsAlike(businesses'[i].listings, businesses[i].listings)]_vars

\* a restart loaded a user with a purchase and a business with a listing
RoundTripOfSoldItem ==
    /\ last.op = "restart" /\ last.result = "loaded"
    /\ \E i \in 1..Len(users) : users[i].purchases # <<>>
    /\ \E i \in 1..Len(businesses) : businesses[i].listings # <<>>

\* the step saves lists that are exactly the lists the handler before left after
\* its own save: two saves in succession with no mutation between them
SavesAgain ==
    /\ presave.saved /\ presave'.saved
    /\ presave'.users = users
    /\ presave'.businesses = businesses
    /\ presave'.food_items = food_items

\* the password fields of the accounts in the written document
WrittenPasswords(file) ==
    <<[i \in 1..Len(file.val.v.users.v) |-> file.val.v.users.v[i].v.password],
      [i \in 1..Len(file.val.v.businesses.v) |-> file.val.v.businesses.v[i].v.password]>>

\* C12: a save that follows a save with no mutation between them writes the same
\* document again; and a hashed credential that is loaded and saved again is
\* written back as it was (same salt, hash and iteration count), not hashed again.
SaveIsIdempotent ==
    [][/\ SavesAgain => data_file' = data_file
       /\ (last'.op = "restart" /\ last'.result = "loaded") =>
             /\ WrittenPasswords(data_file') = WrittenPasswords(data_file)
             /\ \A i \in 1..Len(users) : users'[i].password = users[i].password
             /\ \A i \in 1..Len(businesses) :
                   businesses'[i].password = businesses[i].password]_vars

\* a user logged out, and the save of the logout found the lists as the save before
\* had left them
SavedAgainAtLogout ==
    /\ last.op = "logout" /\ last.result = "user"
    /\ presave.saved
    /\ presave.users = users /\ presave.businesses = businesses
    /\ presave.food_items = food_items
    /\ businesses # <<>> /\ food_items # <<>>

-----------------------------------------------------------------------------
(* Properties of the load loops *)

\* the passwords tried against a migrated credential
MigrationCandidates == LegacyPasswords \cup {Secret12}

\* cred is a hash record, written to the file as it is, against which s verifies
\* and no other candidate does
MigratedFrom(cred, written, s) ==
    /\ cred.t = "dict"
    /\ DOMAIN cred.v = {"salt", "hash", "iter"}
    /\ written = cred
    /\ \A q \in MigrationCandidates : \A r \in FreshUrandom(cred, PyStr(q)) :
          verify_password(cred, PyStr(q), r) = Ret(q = s)

\* the records of the array k of the raw document
RawRecords(k) == DictsOf(DictGet(raw, k, PyList(<<>>)))

\* C13: legacy-password migration.  For every user and every business record whose
\* stored password is a raw string s, after the load and the save that follows it
\* the account's credential, in memory and in the file, is a hash record against
\* which s verifies and every other password does not.
LegacyPasswordMigrated ==
    pc = "ready" =>
        /\ \A i \in 1..Len(RawRecords("users")) :
              LET s == RawRecords("users")[i].v.password
              IN  s.t = "str" =>
                    MigratedFrom(users[i].password,
                                 data_file.val.v.users.v[i].v.password, s.v)
        /\ \A i \in 1..Len(RawRecords("businesses")) :
              LET s == RawRecords("businesses")[i].v.password
              IN  s.t = "str" =>
                    MigratedFrom(businesses[i].password,
                                 data_file.val.v.businesses.v[i].v.password, s.v)

\* a document with a raw-string password for a user and another for a business was
\* loaded and saved
LegacyPairMigrated ==
    /\ pc = "ready"
    /\ Len(RawRecords("users")) = 1 /\ Len(RawRecords("businesses")) = 1
    /\ RawRecords("users")[1].v.password = PyStr(Passw0rd)
    /\ RawRecords("businesses")[1].v.password = PyStr(LowerPassw0rd)
    /\ users[1].password.t = "dict" /\ businesses[1].password.t = "dict"

-----------------------------------------------------------------------------
(* The application installed over the data file of an earlier version: the first  *)
(* start migrates the file, then accounts sign up, log in and out, reset their     *)
(* passwords, and the program restarts.                                            *)

\* a legacy record that also carries a security question and its answer
LegacyAccountWithAnswer(username, p) ==
    PyDict([username |-> PyStr(username), password |-> PyStr(p),
            name |-> PyStr(DisplayName), sec_q |-> PyStr(SecurityQuestion),
            sec_a |-> PyStr(AnswerGiven)])

InstalledFiles ==
    {FileMissing} \cup LegacyFiles
    \cup {FileJson(PyDict([users |-> PyList(<<LegacyAccountWithAnswer(Alice, p)>>)])) :
            p \in LegacyPasswords}

LegacyInit ==
    /\ users = <<>> /\ businesses = <<>> /\ food_items = <<>>
    /\ active_user = 0 /\ active_business = 0
    /\ data_file \in InstalledFiles
    /\ now = 0 /\ pay_wins = <<>> /\ next_id = 1
    /\ presave = NoSave /\ last = NoLast
    /\ StartBlank
    /\ pc = "installed" /\ arg = PyNone /\ res = Raise

FirstStart == pc = "installed" /\ \E in_time \in BOOLEAN : StartApp(in_time, Salt0)

LegacyReset ==
    /\ \E u \in {Alice, Bakery}, r \in AppSalts :
          ResetPassword(u, AnswerGiven, Secret12, Secret12, r)
    /\ UNCHANGED <<startvars, pc, arg, res>>

LegacyNext ==
    \/ FirstStart
    \/ pc = "ready" /\ Login
    \/ pc = "ready" /\ SignupUser
    \/ pc = "ready" /\ SignupBusiness
    \/ pc = "ready" /\ UserLogsOut
    \/ pc = "ready" /\ BusinessLogsOut
    \/ pc = "ready" /\ LegacyReset
    \/ Restarts

SpecLegacy == LegacyInit /\ [][LegacyNext]_vars

\* a credential as hash_password makes it
IsHashRecord(x) ==
    /\ x.t = "dict"
    /\ DOMAIN x.v = {"salt", "hash", "iter"}
    /\ x.v.salt.t = "str" /\ x.v.hash.t = "str" /\ x.v.iter.t = "int"

\* the passwords of the accounts of a written document
PasswordsAtRest(file) ==
    {file.val.v.users.v[i].v.password : i \in 1..Len(file.val.v.users.v)}
    \cup {file.val.v.businesses.v[i].v.password :
            i \in 1..Len(file.val.v.businesses.v)}

\* C14: after any save, every password of every user and business in the written
\* document is a hash record (salt, hash, iter): a step that saves leaves only hash
\* records in the file, and from the first save on the file holds no other password,
\* for accounts that signed up, that came from a legacy plaintext record, or whose
\* password was reset.
NoPlaintextAtRest ==
    /\ presave.saved => \A p \in PasswordsAtRest(data_file) : IsHashRecord(p)
    /\ pc = "ready" => \A p \in PasswordsAtRest(data_file) : IsHashRecord(p)

\* a user loaded from a legacy plaintext record has just reset the password, next to
\* a business that signed up
LegacyUserResetNextToSignup ==
    /\ pc = "ready"
    /\ last.op = "reset" /\ last.result = "user"
    /\ Len(users) = 1 /\ users[1].id = Uuid("u", 101)
    /\ Len(businesses) = 1 /\ businesses[1].id = Uuid("b", 1)
    /\ Cardinality(PasswordsAtRest(data_file)) = 2

-----------------------------------------------------------------------------
(* Properties of saving *)

\* the handler that has just run completed a mutating action
ActionSucceeded ==
    \/ last.op = "signup" /\ last.result \in {"user", "business"}
    \/ last.op = "login" /\ last.result \in {"user", "business"}
    \/ last.op = "listing" /\ last.result = "added"
    \/ last.op = "purchase" /\ last.result = "paid"
    \/ last.op = "withdraw" /\ last.result = "done"
    \/ last.op = "logout"
    \/ last.op = "reset" /\ last.result \in {"user", "business"}

\* C15: save is part of every mutating user action: each successful signup, login
\* (of a User and of a Business), listing creation, purchase, withdrawal, logout and
\* password reset has saved when it returns, before the next action can start.
EverySuccessSaves == ActionSucceeded => presave.saved

\* the same, leaving out the login of a Business
EverySuccessButBusinessLoginSaves ==
    (ActionSucceeded /\ ~(last.op = "login" /\ last.result = "business"))
        => presave.saved

-----------------------------------------------------------------------------
(* Properties of login *)

\* the passwords an account may have been given at signup or reset
PasswordsSet == SignupPasswords \cup ResetPasswords

\* the passwords whose hash record, under some salt of the application, is cred
PasswordsOf(cred) ==
    {q \in PasswordsSet : \E r \in AppSalts :
        cred = hash_password(PyStr(q), PyNone, PyInt(DefaultIterations), r).val}

\* the stored credential of acc verifies against the password p
CredentialVerifies(acc, p) ==
    \A r \in FreshUrandom(acc.password, PyStr(p)) :
        verify_password(acc.password, PyStr(p), r) = Ret(TRUE)

\* acc is an account named u, exactly, whose credential verifies against p
AccountFor(acc, u, p) ==
    /\ acc.username = PyStr(u)
    /\ CredentialVerifies(acc, p)
    /\ p \in PasswordsOf(acc.password)

\* the step is a login whose username and password are read as u and p: it
\* succeeds exactly if an account answers to them, that account is then the only
\* active one, and a failed login changes neither the session nor the data
LoginDecidedBy(u, p) ==
    LET us == {i \in 1..Len(users) : AccountFor(users[i], u, p)}
        bs == {i \in 1..Len(businesses) : AccountFor(businesses[i], u, p)}
        succeeded == last'.result \in {"user", "business"}
    IN  /\ succeeded <=> (u # <<>> /\ p # <<>> /\ us \cup bs # {})
        /\ last'.result = "user" =>
              active_user' \in us /\ active_business' = 0
        /\ last'.result = "business" =>
              active_business' \in bs /\ active_user' = 0
        /\ ~succeeded =>
              UNCHANGED <<active_user, active_business, users, businesses,
                          food_items, data_file>>
        /\ [i \in 1..Len(users') |-> users'[i].password]
              = [i \in 1..Len(users) |-> users[i].password]
        /\ [i \in 1..Len(businesses') |-> businesses'[i].password]
              = [i \in 1..Len(businesses) |-> businesses[i].password]

\* C16, as stated: login succeeds, making that account the active one, if and only
\* if an account exists whose username equals the entered username exactly and
\* whose credential verifies against the entered password; a failed login leaves
\* the session and the data unchanged.
LoginIffEnteredMatches ==
    [][last'.op = "login" => LoginDecidedBy(last'.username, last'.password)]_vars

\* C16, amended: the same for the entries as do_login reads them, each with its
\* leading and trailing whitespace removed and both non-empty: the username equals
\* an account's username exactly (case-sensitive) and the password is the one the
\* account's credential was made from.
LoginIffStrippedMatches ==
    [][last'.op = "login" =>
          LoginDecidedBy(Strip(last'.username), Strip(last'.password))]_vars

\* a user who signed up has logged in with the password of the signup
LoggedInAfterSignup ==
    /\ last.op = "login" /\ last.result = "user"
    /\ active_user # 0
    /\ users[active_user].username = PyStr(Strip(last.username))
    /\ Strip(last.password) \in PasswordsOf(users[active_user].password)

\* the right name with the password in lower case was turned down
LoginWrongCaseTurnedDown ==
    /\ last.op = "login" /\ last.result = "invalid"
    /\ \E i \in 1..Len(users) :
          /\ users[i].username = PyStr(Strip(last.username))
          /\ Lower(Strip(last.password)) = Lower(Passw0rd)
          /\ Passw0rd \in PasswordsOf(users[i].password)

-----------------------------------------------------------------------------
(* Properties of a listing *)

\* the items of every list the save found, and those of the written document
ItemsFound(ps) ==
    {ps.food_items[i] : i \in 1..Len(ps.food_items)}
    \cup UNION {{ps.users[i].purchases[k] : k \in 1..Len(ps.users[i].purchases)} :
                  i \in 1..Len(ps.users)}
    \cup UNION {{ps.businesses[i].listings[k] : k \in 1..Len(ps.businesses[i].listings)} :
                  i \in 1..Len(ps.businesses)}

\* the ids of the items of an array of the document
IdsIn(arr) == {arr.v[i].v.id : i \in 1..Len(arr.v)}

\* the written document holds the item x, in the pool, in listings or in purchases
InDocument(file, x) ==
    LET doc == file.val.v
    IN  \/ x.id \in IdsIn(doc.food_items)
        \/ \E i \in 1..Len(doc.users.v) : x.id \in IdsIn(doc.users.v[i].v.purchases)
        \/ \E i \in 1..Len(doc.businesses.v) :
              x.id \in IdsIn(doc.businesses.v[i].v.listings)

\* the list items less what a save at hour t drops when it drops the items whose
\* expiry + 24h is before(t)
Surviving(items, t, dropped(_, _)) ==
    SelectSeq(items, LAMBDA f : ~dropped(f.expiry + 24, t))

\* the step made a listing: one new item x of the active business, expiring at
\* now + h, last in the pool and in that business's listings unless the save of the
\* same step dropped it
ListingMade(dropped(_, _)) ==
    LET x == last'.item
        b == active_business
    IN  /\ b # 0
        /\ x.business_id = businesses[b].id
        /\ x.expiry = now + last'.hours
        /\ \A y \in ItemsFound([users |-> users, businesses |-> businesses,
                                food_items |-> food_items]) : y.id # x.id
        /\ food_items' = Surviving(Append(food_items, x), now, dropped)
        /\ businesses'[b].listings =
              Surviving(Append(businesses[b].listings, x), now, dropped)
        /\ \A i \in 1..Len(businesses) :
              i # b => businesses'[i].listings =
                          Surviving(businesses[i].listings, now, dropped)

\* the step saved: an item the save found is in the written document exactly if the
\* save did not drop it
SaveKeeps(dropped(_, _)) ==
    \A x \in ItemsFound(presave') :
        InDocument(data_file', x) <=> ~dropped(x.expiry + 24, presave'.at)

DroppedAfter(limit, t) == t > limit
DroppedFrom(limit, t) == t >= limit

\* C17, as stated: a listing by the active Business with hours offset h adds exactly
\* one new item, with that Business's id and expiry = now + h, to the pool and to
\* the Business's listings; the item stays in the document through every save made
\* while time <= expiry + 24h, and a save made after expiry + 24h removes it.
ListingKeptThroughLimit ==
    [][/\ (last'.op = "listing" /\ last'.result = "added") => ListingMade(DroppedAfter)
       /\ presave'.saved => SaveKeeps(DroppedAfter)]_vars

\* C17, amended: the new item has that Business's id and expiry = now + h and is
\* added to the pool and to the Business's listings unless h <= -24 (the save of the
\* same handler then drops it at once); an item a save finds in memory stays in
\* the document while time < expiry + 24h, and the first save made at or after
\* expiry + 24h removes it.
ListingKeptBeforeLimit ==
    [][/\ (last'.op = "listing" /\ last'.result = "added") => ListingMade(DroppedFrom)
       /\ presave'.saved => SaveKeeps(DroppedFrom)]_vars

\* an item listed for 12 hours was kept by a save 12 hours past its expiry and is
\* gone after the save made at expiry + 24h
ListingSweptAtLimit ==
    /\ presave.saved
    /\ presave.at = 36
    /\ \E i \in 1..Len(presave.food_items) : presave.food_items[i].expiry = 12
    /\ food_items = <<>>
    /\ data_file.val.v.food_items.v = <<>>

-----------------------------------------------------------------------------
(* Properties of the life of an item *)

\* the ids of the items listed so far
ListedIds == {Uuid("f", n) : n \in 1..(next_id - 1)}

\* the item id is in the pool; in some business's listings; in some user's purchases
InPool(fs, id) == \E i \in 1..Len(fs) : fs[i].id = id
InListings(bs, id) ==
    \E i \in 1..Len(bs) : \E k \in 1..Len(bs[i].listings) : bs[i].listings[k].id = id
InPurchases(us, id) ==
    \E i \in 1..Len(us) : \E k \in 1..Len(us[i].purchases) : us[i].purchases[k].id = id

\* C18: an item is listed, then sold or purged, and a sold item is purged in the end
\* or stays sold: a sold item is not in the pool; an item that has left the pool
\* (sold, or purged by a sweep) never enters it again; and an item that is nowhere
\* any more (not in the pool, in no listings, in no purchases) never shows up again
\* in any of them, whatever follows, restarts included.
ItemNeverComesBack ==
    [][\A id \in ListedIds :
          /\ InPurchases(users', id) => ~InPool(food_items', id)
          /\ ~InPool(food_items, id) => ~InPool(food_items', id)
          /\ (/\ ~InPool(food_items, id)
              /\ ~InListings(businesses, id)
              /\ ~InPurchases(users, id))
                => /\ ~InListings(businesses', id)
                   /\ ~InPurchases(users', id)]_vars

\* the program has started again on a file with a sold item, which is still sold
SoldItemAfterRestart ==
    /\ last.op = "restart" /\ last.result = "loaded"
    /\ InPurchases(users, Uuid("f", 1))
    /\ ~InPool(food_items, Uuid("f", 1))

\* an item a sweep purged is nowhere after the payment of a window left open on it
PurgedItemAfterLatePayment ==
    /\ last.op = "purchase" /\ last.result = "paid"
    /\ last.item.expiry + 24 <= now
    /\ ~InPool(food_items, last.item.id)
    /\ ~InListings(businesses, last.item.id)
    /\ ~InPurchases(users, last.item.id)

-----------------------------------------------------------------------------
(* Properties of the load loops on malformed records *)

\* raw is a document: a dict whose arrays, where present, are lists
IsDocument(doc) ==
    /\ doc.t = "dict"
    /\ \A k \in {"users", "businesses", "food_items"} \cap DOMAIN doc.v :
          doc.v[k].t = "list"

\* C19: a malformed record of the loaded document, be it a user, a business or an
\* item, never aborts the load: whatever the records of a document are, startup gets
\* to its end with one account for every account record that is well-formed.
BadRecordNeverAbortsLoad ==
    (pc \in {"ready", "crashed"} /\ IsDocument(raw)) => pc = "ready"

\* the part that holds, for items: when the load gets to its end, the lists the save
\* finds hold an item record with a bad expiry with the expiry now, not an item
\* record without a name, and the item records next to it
BadItemsRecoveredLocally ==
    (pc = "ready" /\ IsDocument(raw)) =>
        LET rfs == RawRecords("food_items")
            loaded == presave.food_items
        IN  \A i \in 1..Len(rfs) :
              IF rfs[i].t = "dict" /\ ItemRequired \subseteq DOMAIN rfs[i].v
              THEN \E k \in 1..Len(loaded) :
                      /\ loaded[k].id = rfs[i].v.id
                      /\ loaded[k].expiry =
                            (IF FromIsoFormat(rfs[i].v.expiry.v).ok
                             THEN FromIsoFormat(rfs[i].v.expiry.v).val ELSE now)
              ELSE \A k \in 1..Len(loaded) : loaded[k].id # rfs[i].v.id

-----------------------------------------------------------------------------
(* FoodItem on its own: one construction for every form of the expiry and of the  *)
(* hours.                                                                          *)

ItemHours == {0, StartHour}

\* the expiry argument: left out, None, a text isoformat wrote, a text that is no
\* timestamp, a datetime, a number
ExpiryArgs ==
    {<<>>, <<PyNone>>, <<PyStr(IsoFormat(StartHour + 5))>>, <<PyStr(<<"x">>)>>,
     <<PyStr(<<>>)>>, <<PyDatetime(StartHour - 3)>>, <<PyInt(5)>>}

\* the hours argument: left out, whole, negative, infinite
HoursArgs == {<<>>, <<PyInt(5)>>, <<PyFloat(-30)>>, <<PyFloatInf>>}

\* the keyword arguments of one construction
ItemKwargs(e, h) ==
    PyDict([name |-> PyStr(<<"B", "r", "e", "a", "d">>),
            category |-> PyStr(<<"F", "r", "u", "i", "t">>),
            price |-> PyFloat(250), business_id |-> Uuid("b", 1)]
           @@ (IF e = <<>> THEN <<>> ELSE [expiry |-> e[1]])
           @@ (IF h = <<>> THEN <<>> ELSE [hours |-> h[1]]))

ItemInit ==
    /\ users = <<>> /\ businesses = <<>> /\ food_items = <<>>
    /\ active_user = 0 /\ active_business = 0
    /\ data_file = FileMissing
    /\ now \in ItemHours /\ pay_wins = <<>> /\ next_id = 1
    /\ presave = NoLists /\ last = NoLast
    /\ StartBlank
    /\ pc = "item"
    /\ arg \in {ItemKwargs(e, h) : e \in ExpiryArgs, h \in HoursArgs}
    /\ res = Raise

\* FoodItem(**arg)
MakeItem ==
    /\ pc = "item"
    /\ res' = ItemFromDict(arg, now, Uuid("f", next_id))
    /\ pc' = "made"
    /\ UNCHANGED <<appvars, startvars, arg>>

ItemNext == MakeItem

SpecItem == ItemInit /\ [][ItemNext]_vars

\* the hours of a construction, 0 when left out, as a number of hours
HoursGiven == DictGet(arg, "hours", PyInt(0))

\* C20: FoodItem construction never fails and always yields a timestamp expiry: a
\* valid ISO-8601 text yields that timestamp, a timestamp is kept as it is, an hours
\* offset h yields now + h, and an unparsable or missing expiry yields now (plus the
\* hours, when hours are given as well).
FoodItemNeverFails ==
    pc = "made" =>
        LET e == DictGet(arg, "expiry", PyNone)
        IN  /\ res.ok
            /\ res.val.expiry \in Int
            /\ (e.t = "str" /\ FromIsoFormat(e.v).ok) =>
                  res.val.expiry = FromIsoFormat(e.v).val
            /\ e.t = "datetime" => res.val.expiry = e.v
            /\ (e.t \notin {"str", "datetime"} \/ (e.t = "str" /\ ~FromIsoFormat(e.v).ok))
                  => res.val.expiry = now + HoursGiven.v

\* the same for finite hours only
FoodItemWithFiniteHours ==
    (pc = "made" /\ HoursGiven.t \in {"int", "float"}) => FoodItemNeverFails

-----------------------------------------------------------------------------
(* Properties of identifiers *)

\* the ids of the accounts of a list, in order
IdsOf(accounts) == [i \in 1..Len(accounts) |-> accounts[i].id]

\* the ids of the items of the pool, of every listings and of every purchases
ItemIds(us, bs, fs) ==
    {fs[i].id : i \in 1..Len(fs)}
    \cup UNION {{bs[i].listings[k].id : k \in 1..Len(bs[i].listings)} : i \in 1..Len(bs)}
    \cup UNION {{us[i].purchases[k].id : k \in 1..Len(us[i].purchases)} : i \in 1..Len(us)}

\* s is the beginning of t
IsPrefix(s, t) == Len(s) <= Len(t) /\ SubSeq(t, 1, Len(s)) = s

\* the step is a start of the program that did not get the file's document in time
StartedEmpty == last'.op = "restart" /\ last'.result = "timeout"

\* C21: an id is assigned once, at creation, and stays: through every handler, and
\* through a save followed by a load, every account keeps its id (a signup adds one
\* account with a new id at the end), and the only item id that appears is that of
\* the item a listing has just made, which no item had before; a purchase moves the
\* item with its id.
IdsNeverChange ==
    [][/\ ~StartedEmpty =>
             /\ IsPrefix(IdsOf(users), IdsOf(users'))
             /\ IsPrefix(IdsOf(businesses), IdsOf(businesses'))
       /\ (last'.op = "restart" /\ last'.result = "loaded") =>
             /\ IdsOf(users') = IdsOf(users)
             /\ IdsOf(businesses') = IdsOf(businesses)
       /\ \A i, j \in 1..Len(users') : i # j => users'[i].id # users'[j].id
       /\ \A i, j \in 1..Len(businesses') : i # j => businesses'[i].id # businesses'[j].id
       /\ IF last'.op = "listing" /\ last'.result = "added"
          THEN /\ last'.item.id \notin ItemIds(users, businesses, food_items)
               /\ ItemIds(users', businesses', food_items')
                     \subseteq ItemIds(users, businesses, food_items) \cup {last'.item.id}
          ELSE ItemIds(users', businesses', food_items')
                  \subseteq ItemIds(users, businesses, food_items)
       /\ (last'.op = "purchase" /\ last'.result = "paid"
           /\ InPurchases(users', last'.item.id)) =>
             \E k \in DOMAIN users'[last'.buyer].purchases :
                users'[last'.buyer].purchases[k] = last'.item]_vars

\* the program has started again on a file with a user, a business and a sold item,
\* each with the id it had
RestartedWithSameIds ==
    /\ last.op = "restart" /\ last.result = "loaded"
    /\ IdsOf(users) = <<Uuid("u", 1)>>
    /\ IdsOf(businesses) = <<Uuid("b", 1)>>
    /\ ItemIds(users, <<>>, <<>>) = {Uuid("f", 1)}

-----------------------------------------------------------------------------
(* Properties of the pool *)

\* the ids of the items of the pool that name the business b as their seller
PoolIdsOf(b) ==
    {food_items[i].id : i \in {k \in 1..Len(food_items) :
                                 food_items[k].business_id = b.id}}

\* C22: in every state the pool and the listings agree: for every business B an item
\* is in B.listings exactly if it is in the pool with business_id = B.id.
PoolMatchesListings ==
    \A b \in 1..Len(businesses) :
        {businesses[b].listings[k].id : k \in 1..Len(businesses[b].listings)}
            = PoolIdsOf(businesses[b])

\* the same in the states where no item is in a user's purchases
PoolMatchesListingsBeforeSale ==
    (\A u \in 1..Len(users) : users[u].purchases = <<>>) => PoolMatchesListings

-----------------------------------------------------------------------------
(* The marketplace with two sellers: a second business has signed up before, and   *)
(* the shopper buys from the first through one or two payment windows.             *)

Cafe == <<"c", "f">>

\* the state after the businesses cf and bk signed up and logged out
SalesInit ==
    /\ users = <<>>
    /\ businesses = <<NewBusiness(Cafe, Passw0rd, DisplayName, PyStr(SecurityQuestion),
                                  PyStr(AnswerGiven), Salt0, 1),
                      NewBusiness(Bakery, Passw0rd, DisplayName, PyStr(SecurityQuestion),
                                  PyStr(AnswerGiven), Salt0, 2)>>
    /\ food_items = <<>>
    /\ active_user = 0 /\ active_business = 0
    /\ data_file = save_data(<<>>, businesses, <<>>, 0).file
    /\ now = 0 /\ pay_wins = <<>> /\ next_id = 1
    /\ presave = NoSave /\ last = NoLast
    /\ StartBlank
    /\ pc = "ready" /\ arg = PyNone /\ res = Raise

SalesNext ==
    \/ Login
    \/ SignupUser
    \/ UserLogsOut
    \/ BusinessLogsOut
    \/ AddListing
    \/ Buy
    \/ Pay
    \/ HoursPass

SpecSales == SalesInit /\ [][SalesNext]_vars

-----------------------------------------------------------------------------
(* Properties of notifications *)

\* the step is the login of the business b
BusinessLoggedIn(b) ==
    last'.op = "login" /\ last'.result = "business" /\ active_business' = b

\* C23: a sale of an item whose seller exists appends exactly one notification to
\* the seller's notifications, at the end, and none to another business; the login
\* of a business clears its notifications and, if there were any, saves the cleared
\* list; nothing else changes the notifications, so none is shown at a second login.
NotificationsFollowSales ==
    [][\A b \in 1..Len(businesses) :
          LET n == businesses[b].notifications
              m == businesses'[b].notifications
          IN  IF Paid /\ businesses[b].id = last'.item.business_id
              THEN Len(m) = Len(n) + 1 /\ SubSeq(m, 1, Len(n)) = n
              ELSE IF BusinessLoggedIn(b)
              THEN /\ m = <<>>
                   /\ n # <<>> =>
                         /\ presave'.saved
                         /\ data_file'.val.v.businesses.v[b].v.notifications.v = <<>>
              ELSE m = n]_vars

\* the seller bk, sold to twice while cf was not, has logged in and the cleared
\* list was saved
SellerNotifiedAtLogin ==
    /\ last.op = "login" /\ last.result = "business"
    /\ presave.saved
    /\ active_business = 2
    /\ businesses[2].cash = 500 /\ businesses[1].cash = 0
    /\ businesses[2].notifications = <<>>

-----------------------------------------------------------------------------
(* Properties of a sale *)

\* how many times the item id is in the purchases of the users us
TimesBought(us, id) ==
    LET F[i \in 0..Len(us)] ==
          IF i = 0 THEN 0
          ELSE F[i - 1] + Cardinality({k \in 1..Len(us[i].purchases) :
                                          us[i].purchases[k].id = id})
    IN  F[Len(us)]

\* C24: an item is sold at most once: a payment goes through only for an item that
\* is in no purchase history yet, so no item is in the purchase histories twice, and
\* the seller is credited with its price once.
SoldAtMostOnce ==
    [][Paid =>
          /\ ~InPurchases(users, last'.item.id)
          /\ TimesBought(users', last'.item.id) <= 1]_vars

-----------------------------------------------------------------------------
(* The second iteration's session: one window whose screens are the main menu, the *)
(* login and signup forms and the two account menus.  Passwords are kept as they   *)
(* are entered and the accounts are saved as their __dict__.                       *)

\* User(u, p, n) and Business(u, p, n) of iteration 2, the k-th of its kind
Account2(role, u, p, n, k) ==
    IF role = "user"
    THEN [username |-> PyStr(u), password |-> PyStr(p), name |-> PyStr(n),
          id |-> Uuid("u", k), purchases |-> <<>>]
    ELSE [username |-> PyStr(u), password |-> PyStr(p), name |-> PyStr(n),
          id |-> Uuid("b", k), listings |-> <<>>, cash |-> 0]

\* account.__dict__ as json.dump(..., default=str) writes it: an item of a list is
\* no JSON value and is written as the text str() gives
Account2Dict(a) ==
    PyDict([k \in DOMAIN a |->
              IF k \in {"purchases", "listings"}
              THEN PyList([i \in 1..Len(a[k]) |-> PyStr(<<"<", "F", "o", "o", "d", "I",
                                                          "t", "e", "m", ">">>)])
              ELSE IF k = "cash" THEN PyFloat(a[k])
              ELSE a[k]])

\* save_data() of iteration 2: no sweep
save_data_2(us, bs, fs) ==
    FileJson(PyDict([users |-> PyList([i \in 1..Len(us) |-> Account2Dict(us[i])]),
                     businesses |-> PyList([i \in 1..Len(bs) |-> Account2Dict(bs[i])]),
                     food_items |-> PyList([i \in 1..Len(fs) |-> FoodItemToDict(fs[i])])]))

\* the first account of the list with the username u and the password p, 0 if none
FirstMatch2(accounts, u, p) ==
    LET hits == {i \in 1..Len(accounts) :
                    accounts[i].username = PyStr(u) /\ accounts[i].password = PyStr(p)}
    IN  IF hits = {} THEN 0 ELSE CHOOSE i \in hits : \A j \in hits : i <= j

\* Login, then User or Business, then do_login of the form
Login2 ==
    /\ pc = "main"
    /\ \E role \in {"user", "business"}, uname \in {Alice, Bakery},
          pwd \in {Passw0rd, Secret12} :
          LET u == Strip(uname)
              p == Strip(pwd)
              i == FirstMatch2(IF role = "user" THEN users ELSE businesses, u, p)
          IN  /\ IF i = 0
                 THEN UNCHANGED <<active_user, active_business, pc>>
                 ELSE IF role = "user"
                 THEN active_user' = i /\ pc' = "user_menu" /\ UNCHANGED active_business
                 ELSE active_business' = i /\ pc' = "business_menu"
                      /\ UNCHANGED active_user
              /\ last' = [op |-> "login", result |-> IF i = 0 THEN "invalid" ELSE role]
    /\ Untouched
    /\ UNCHANGED <<now, pay_wins, next_id, startvars, arg, res>>

\* Sign Up, then User or Business, then do_signup of the form
Signup2 ==
    /\ pc = "main"
    /\ \E role \in {"user", "business"}, uname \in {Alice, Bakery},
          pwd \in {Passw0rd, LowerPassw0rd}, cpwd \in {Passw0rd} :
          LET u == Strip(uname)
              p == Strip(pwd)
              cp == Strip(cpwd)
              n == Strip(DisplayName)
          IN  IF u = <<>> \/ p = <<>> \/ n = <<>> \/ cp = <<>>
              THEN Rejected("signup", "missing") /\ UNCHANGED pc
              ELSE IF p # cp THEN Rejected("signup", "mismatch") /\ UNCHANGED pc
              ELSE IF WeakPassword(p) THEN Rejected("signup", "weak") /\ UNCHANGED pc
              ELSE IF role = "user"
              THEN /\ Len(users) < AuthMaxUsers
                   /\ users' = Append(users, Account2(role, u, p, n, Len(users) + 1))
                   /\ active_user' = Len(users) + 1
                   /\ pc' = "user_menu"
                   /\ data_file' = save_data_2(users', businesses, food_items)
                   /\ presave' = [saved |-> TRUE, at |-> now, users |-> users',
                                  businesses |-> businesses, food_items |-> food_items]
                   /\ last' = [op |-> "signup", result |-> role]
                   /\ UNCHANGED <<businesses, food_items, active_business, pay_wins,
                                  next_id, now>>
              ELSE /\ Len(businesses) < AuthMaxBusinesses
                   /\ businesses' = Append(businesses,
                                           Account2(role, u, p, n, Len(businesses) + 1))
                   /\ active_business' = Len(businesses) + 1
                   /\ pc' = "business_menu"
                   /\ data_file' = save_data_2(users, businesses', food_items)
                   /\ presave' = [saved |-> TRUE, at |-> now, users |-> users,
                                  businesses |-> businesses', food_items |-> food_items]
                   /\ last' = [op |-> "signup", result |-> role]
                   /\ UNCHANGED <<users, food_items, active_user, pay_wins, next_id, now>>
    /\ UNCHANGED <<startvars, arg, res>>

\* the Back button of an account menu: show_main_menu
BackToMain2 ==
    /\ pc \in {"user_menu", "business_menu"}
    /\ pc' = "main"
    /\ Untouched
    /\ last' = [op |-> "back", result |-> "main"]
    /\ UNCHANGED <<active_user, active_business, now, pay_wins, next_id, startvars,
                   arg, res>>

\* a first start of iteration 2: no data file, nothing is saved before a signup
Session2Init ==
    /\ AppBlank /\ StartBlank
    /\ pc = "main" /\ arg = PyNone /\ res = Raise

Session2Next == Login2 \/ Signup2 \/ BackToMain2

SpecSession2 == Session2Init /\ [][Session2Next]_vars

\* C25: in iterations 1 and 2 as well, at most one of active_user and
\* active_business is set in every state, whatever logins, signups and returns to
\* the main menu of both roles came before.
OneSessionInEarlyIterations == active_user = 0 \/ active_business = 0

-----------------------------------------------------------------------------
(* Properties of the password reset *)

\* the account a reset names with u: the first user of that name, or else the first
\* business; <<>> when there is none
NamedBy(u) ==
    LET us == {i \in 1..Len(users) : users[i].username = PyStr(u)}
        bs == {i \in 1..Len(businesses) : businesses[i].username = PyStr(u)}
    IN  IF us # {} THEN <<"user", CHOOSE i \in us : \A j \in us : i <= j>>
        ELSE IF bs # {} THEN <<"business", CHOOSE i \in bs : \A j \in bs : i <= j>>
        ELSE <<>>

\* 8+ characters, a capital, a digit
MeetsPasswordRules(p) ==
    /\ Len(p) >= 8
    /\ \E i \in 1..Len(p) : p[i] \in Capitals
    /\ \E i \in 1..Len(p) : p[i] \in DigitSet

\* the step is a reset whose entries are read as u, a, np, cp.  It succeeds exactly
\* if the account named u has a security question, a is its answer but for the case
\* of the letters, np = cp and np meets the rules; then np verifies against the new
\* credential of that account, an old password does not (one equal to np only if
\* oldStays), and the other credentials are as before; otherwise nothing changes.
ResetDecidedBy(u, a, np, cp, oldStays) ==
    LET acc == NamedBy(u)
        old == IF acc = <<>> THEN PyNone
               ELSE IF acc[1] = "user" THEN users[acc[2]] ELSE businesses[acc[2]]
        new == IF acc = <<>> THEN PyNone
               ELSE IF acc[1] = "user" THEN users'[acc[2]] ELSE businesses'[acc[2]]
        allowed == /\ acc # <<>>
                   /\ old.sec_q.t = "str" /\ old.sec_q.v # <<>>
                   /\ old.sec_a.t = "str" /\ Lower(a) = Lower(old.sec_a.v)
                   /\ np = cp
                   /\ MeetsPasswordRules(np)
        succeeded == last'.result \in {"user", "business"}
    IN  /\ succeeded <=> allowed
        /\ succeeded =>
              /\ last'.result = acc[1]
              /\ CredentialVerifies(new, np)
              /\ \A q \in PasswordsOf(old.password) :
                    (q # np \/ ~oldStays) =>
                        \A r \in FreshUrandom(new.password, PyStr(q)) :
                            verify_password(new.password, PyStr(q), r) = Ret(FALSE)
              /\ \A i \in 1..Len(users) :
                    <<"user", i>> # acc => users'[i].password = users[i].password
              /\ \A i \in 1..Len(businesses) :
                    <<"business", i>> # acc =>
                        businesses'[i].password = businesses[i].password
        /\ ~succeeded =>
              UNCHANGED <<users, businesses, food_items, data_file, active_user,
                          active_business>>

\* C26, as stated: a reset changes the credential only when the named account exists
\* with a security question, the supplied answer equals the stored one ignoring
\* case, and the new password equals its confirmation and meets the rules; after it
\* the new password verifies and the old one does not; in every other case nothing
\* changes.
ResetOnlyByAnswer ==
    [][last'.op = "reset" =>
          ResetDecidedBy(last'.username, last'.answer, last'.password, last'.confirm,
                         FALSE)]_vars

\* C26, amended: the same for the entries as the window reads them, each with its
\* leading and trailing whitespace removed, and with the old password failing to
\* verify afterwards unless it is the new one.
ResetOnlyByStrippedAnswer ==
    [][last'.op = "reset" =>
          ResetDecidedBy(Strip(last'.username), Strip(last'.answer),
                         Strip(last'.password), Strip(last'.confirm), TRUE)]_vars

\* a user's password was reset with the answer given in another case
ResetWithAnswerInLowerCase ==
    /\ last.op = "reset" /\ last.result = "user"
    /\ last.answer # AnswerGiven
    /\ Lower(last.answer) = Lower(AnswerGiven)
    /\ \E i \in 1..Len(users) : Strip(last.password) \in PasswordsOf(users[i].password)

-----------------------------------------------------------------------------
(* Properties of startup on the stored data *)

\* the records of the array k of the file that are dicts with the key key
FileRecords(file, k, key) ==
    IF file.kind = "json" /\ IsDocument(file.val)
    THEN LET arr == DictsOf(DictGet(file.val, k, PyList(<<>>)))
         IN  {arr[i] : i \in {j \in 1..Len(arr) :
                                 arr[j].t = "dict" /\ key \in DOMAIN arr[j].v}}
    ELSE {}

\* the usernames of the accounts the array k of the file holds
NamesHeld(file, k) == {d.v.username : d \in FileRecords(file, k, "username")}

\* the item records of the file: the pool, the purchases and the listings
ItemsHeld(file) ==
    LET nested(k, sub) ==
            UNION {LET l == DictsOf(DictGet(d, sub, PyList(<<>>)))
                   IN  {l[i] : i \in {j \in 1..Len(l) :
                                         l[j].t = "dict" /\ "id" \in DOMAIN l[j].v}} :
                   d \in FileRecords(file, k, "username")}
    IN  FileRecords(file, "food_items", "id")
        \cup nested("users", "purchases") \cup nested("businesses", "listings")

\* the item record has every field of an item and is within the retention window
\* at hour t
WithinRetention(d, t) ==
    /\ {"name", "category", "price", "weight", "distance", "expiry", "business_id",
        "id"} \subseteq DOMAIN d.v
    /\ d.v.expiry.t = "str"
    /\ IsIntText(d.v.expiry.v)
    /\ IntValue(d.v.expiry.v) > t - 24

\* the file after the step holds every account and every item within the retention
\* window that the file before it held
FileKeepsData ==
    /\ NamesHeld(data_file, "users") \subseteq NamesHeld(data_file', "users")
    /\ NamesHeld(data_file, "businesses") \subseteq NamesHeld(data_file', "businesses")
    /\ \A d \in ItemsHeld(data_file) :
          WithinRetention(d, now) => \E e \in ItemsHeld(data_file') : e.v.id = d.v.id

\* C27: startup never removes persisted data.  When startup completes, the file
\* still holds every account and every item within the retention window that it
\* held before, whether or not the load thread delivered before the deadline.
StartupKeepsFile ==
    [][(pc = "build" /\ pc' = "ready") => FileKeepsData]_vars

\* the part that holds: a startup whose loaded document was in the queue when the
\* main thread looked keeps the accounts and the retained items of the file
StartupInTimeKeepsFile ==
    [][(pc = "build" /\ pc' = "ready" /\ put_at \in {"before_deadline", "before_check"})
          => FileKeepsData]_vars

-----------------------------------------------------------------------------
(* Properties of a purchase and the expiry of its item *)

\* C28: a purchase completes only for an item whose expiry is later than the time
\* at which the payment is confirmed: an item whose expiry has passed is never added
\* to a purchase history and never credited to its seller, even if its payment
\* window was opened before it expired.
PurchaseOnlyBeforeExpiry ==
    [][Paid => last'.item.expiry > now]_vars

-----------------------------------------------------------------------------
(* Properties of the security question over a restart *)

\* the accounts bs after the step have the security questions and answers of as
SameRecovery(as, bs) ==
    /\ Len(bs) = Len(as)
    /\ \A i \in 1..Len(as) :
          /\ bs[i].username = as[i].username
          /\ bs[i].sec_q = as[i].sec_q
          /\ bs[i].sec_a = as[i].sec_a

\* C29: the security question and answer an account set at signup survive a save
\* followed by a restart whose load came in time, for businesses as for users, so
\* the account can still reset its password through its question.
RecoverySurvivesRestart ==
    [][(last'.op = "restart" /\ last'.result = "loaded") =>
          /\ SameRecovery(users, users')
          /\ SameRecovery(businesses, businesses')]_vars

\* the part that holds: for users
UserRecoverySurvivesRestart ==
    [][(last'.op = "restart" /\ last'.result = "loaded") =>
          SameRecovery(users, users')]_vars

-----------------------------------------------------------------------------
(* Properties of the file against the lists in memory *)

\* C30: after startup and after every completed user action the persisted document
\* is the serialization of the users, businesses and food_items in memory: no change
\* to entity data is left unsaved between user actions.
FileMirrorsMemory ==
    pc = "ready" => data_file = FileJson(Document(users, businesses, food_items))

\* a business with cash to its name has logged in with no notification waiting, a
\* login that does not save
LoggedInWithoutSaving ==
    /\ pc = "ready"
    /\ last.op = "login" /\ last.result = "business"
    /\ ~presave.saved
    /\ active_business # 0
    /\ businesses[active_business].cash > 0

====
